---------------------------- MODULE Spec2Model ----------------------------
(***************************************************************************)
(* finalfusion-utils: the accuracy evaluator (compute-accuracy), and, in   *)
(* the later sections, the analogy and similar query tools (SpecQuery) and *)
(* the quantize and reconstruct tools (SpecStorage).                       *)
(*                                                                         *)
(* ComputeAccuracyApp::run reads a sectioned analogy test file             *)
(* (read_analogies), evaluates every instance on a rayon worker pool       *)
(* (process_analogies / Eval::eval_analogy) against a read-only embedding  *)
(* collection, aggregates per-section counters in a BTreeMap behind a      *)
(* Mutex, and prints the report when the Eval value is dropped.            *)
(*                                                                         *)
(* Strings are sequences of one-character strings, so that parsing,        *)
(* prefix tests and the byte-wise order of String are computed and not     *)
(* assumed.  Embeddings are one-dimensional unit vectors (+1 / -1): every  *)
(* dot product, norm and sum below is then exact in f32.                   *)
(***************************************************************************)
EXTENDS Integers, Sequences, FiniteSets, TLC

VARIABLES
    file,            \* the analogy test file: a sequence of lines
    embeddings,      \* the embedding collection (word -> unit vector), never written
    main_pc,         \* position of the main thread in run / process_analogies / drop
    instances,       \* Vec<Instance> returned by read_analogies
    item,            \* par_iter bookkeeping per instance index
    pc,              \* position of each worker inside eval_analogy
    cur,             \* index of the instance a worker is evaluating (0: none)
    is_correct,      \* eval_analogy local, per worker
    cos,             \* eval_analogy local, per worker
    counts,          \* eval_analogy local: the entry obtained by or_default
    mutex,           \* holder of the section_counts Mutex
    section_counts,  \* BTreeMap<String, Counts>
    panicked,        \* a worker's closure panicked; rayon resumes it in the caller
    iter,            \* Drop: sections the BTreeMap iterator has still to yield
    out,             \* lines printed so far (stdout and stderr, in order)
    matches,         \* clap ArgMatches of the subcommand: the option values given
    app,             \* the value FinalfusionApp::parse returned, once it has
    lineno,          \* analogy / similar: input lines read so far by reader.lines()
    fs,              \* the build and the files: cargo features, the embeddings file, the file written
    locals,          \* the values run holds in its locals
    status           \* how main ended, "running" until then

vars == <<file, embeddings, main_pc, instances, item, pc, cur, is_correct, cos,
          counts, mutex, section_counts, panicked, iter, out,
          matches, app, lineno, fs, locals, status>>

\* The state of the evaluator alone, and the state the other subcommands add.
eval_vars == <<instances, item, pc, cur, is_correct, cos, counts, mutex,
               section_counts, panicked, iter>>

cli_vars == <<matches, app, lineno, fs, locals, status>>

---------------------------------------------------------------------------
(* Bounds of the model. *)

\* Longest test file, in lines.
MaxLines == 4

\* Most test lines (lines that are not section headers) in a file.
MaxInstances == 2

\* Size of the worker pool (ComputeAccuracyApp.n_threads).
NThreads == 2

Workers == 1..NThreads

---------------------------------------------------------------------------
(* Strings. *)

\* The characters in use, in ascending byte order.
Chars == <<" ", ":", "a", "b", "c", "d", "e">>

CharCode(ch) == CHOOSE i \in 1..Len(Chars) : Chars[i] = ch

\* Ord for String: byte-wise lexicographic, a proper prefix first.
RECURSIVE StrLess(_, _)
StrLess(s, t) ==
    IF t = <<>> THEN FALSE
    ELSE IF s = <<>> THEN TRUE
    ELSE IF Head(s) = Head(t) THEN StrLess(Tail(s), Tail(t))
    ELSE CharCode(Head(s)) < CharCode(Head(t))

\* str::starts_with
starts_with(line, prefix) ==
    /\ Len(line) >= Len(prefix)
    /\ SubSeq(line, 1, Len(prefix)) = prefix

\* The header line taken whole as the label.
skip_nothing(line, n) == line

\* line.chars().skip(n).collect::<String>()
skip(line, n) == SubSeq(line, n + 1, Len(line))

\* str::split_whitespace: maximal runs of non-blank characters, in order.
RECURSIVE SplitFrom(_, _, _)
SplitFrom(line, tok, acc) ==
    IF line = <<>>
    THEN IF tok = <<>> THEN acc ELSE Append(acc, tok)
    ELSE IF Head(line) = " "
         THEN SplitFrom(Tail(line), <<>>, IF tok = <<>> THEN acc ELSE Append(acc, tok))
         ELSE SplitFrom(Tail(line), Append(tok, Head(line)), acc)

split_whitespace(line) == SplitFrom(line, <<>>, <<>>)

---------------------------------------------------------------------------
(* read_analogies. *)

\* One pass of the loop over reader.lines().  A line that does not start with
\* ": " is indexed at 0..3 without a length check: fewer than four tokens is
\* an index-out-of-bounds panic.
RECURSIVE ReadLines(_, _, _)
ReadLines(lines, section, acc) ==
    IF lines = <<>> THEN [ok |-> TRUE, instances |-> acc]
    ELSE LET line == Head(lines) IN
         IF starts_with(line, <<":", " ">>)
         THEN ReadLines(Tail(lines), skip(line, 2), acc)
         ELSE LET quadruple == split_whitespace(line) IN
              IF Len(quadruple) < 4
              THEN [ok |-> FALSE, instances |-> acc]
              ELSE ReadLines(Tail(lines), section,
                             Append(acc, [section |-> section,
                                          query   |-> <<quadruple[1], quadruple[2], quadruple[3]>>,
                                          answer  |-> quadruple[4]]))

read_analogies(lines) == ReadLines(lines, <<>>, <<>>)

---------------------------------------------------------------------------
(* The embedding collection and the analogy primitive of the finalfusion   *)
(* library (Vocab::idx, Analogy::analogy), as the evaluator calls them.    *)

\* vocab().idx(word).and_then(|idx| idx.word()).is_some(): the word has a
\* word index, i.e. it is one of the vocabulary's words.
VocabHasWord(emb, word) == word \in DOMAIN emb

Sign(x) == IF x > 0 THEN 1 ELSE IF x < 0 THEN -1 ELSE 0

\* Order of WordSimilarityResult: higher similarity first, equal similarities
\* by ascending word.
Better(x, y) ==
    \/ x.cos > y.cos
    \/ x.cos = y.cos /\ StrLess(x.word, y.word)

Best(S) == CHOOSE x \in S : \A y \in S \ {x} : Better(x, y)

\* The `limit` best of S, best first.
RECURSIVE Ranked(_, _)
Ranked(S, limit) ==
    IF S = {} \/ limit = 0 THEN <<>>
    ELSE LET b == Best(S) IN <<b>> \o Ranked(S \ {b}, limit - 1)

\* Analogy::analogy_masked(query, remove, limit): Err(success mask) when a
\* query word has no embedding; otherwise the words nearest to the
\* normalised b - a + c, the query words whose remove flag is set left out.
analogy_masked(emb, query, remove, limit) ==
    LET success == [i \in 1..3 |-> query[i] \in DOMAIN emb] IN
    IF \E i \in 1..3 : ~success[i]
    THEN [ok |-> FALSE, success |-> success, results |-> <<>>]
    ELSE LET target == Sign(emb[query[2]] - emb[query[1]] + emb[query[3]])
             skips  == {query[i] : i \in {j \in 1..3 : remove[j]}}
             sims   == {[word |-> w, cos |-> emb[w] * target] : w \in (DOMAIN emb) \ skips}
         IN [ok |-> TRUE, success |-> success, results |-> Ranked(sims, limit)]

\* Analogy::analogy(query, limit): all three query words are left out.
analogy(emb, query, limit) == analogy_masked(emb, query, <<TRUE, TRUE, TRUE>>, limit)

---------------------------------------------------------------------------
(* The inputs the model runs on. *)

Word(ch) == <<ch>>

\* Tokens joined by single blanks.
RECURSIVE JoinTokens(_)
JoinTokens(tokens) ==
    IF tokens = <<>> THEN <<>>
    ELSE IF Len(tokens) = 1 THEN Head(tokens)
    ELSE Head(tokens) \o <<" ">> \o JoinTokens(Tail(tokens))

HeaderLine(label) == <<":", " ">> \o label

QueryLine(a, b, c, answer) == JoinTokens(<<Word(a), Word(b), Word(c), Word(answer)>>)

\* Two section headers (out of order when written in this order), two test
\* lines and a blank line.
LinePool ==
    { HeaderLine(<<"b">>), HeaderLine(<<"a", "b">>),
      QueryLine("a", "b", "c", "d"), QueryLine("a", "b", "c", "a"),
      <<>> }

IsTestLine(line) == ~starts_with(line, <<":", " ">>)

Files ==
    {f \in UNION {[1..n -> LinePool] : n \in 0..MaxLines} :
        Cardinality({i \in DOMAIN f : IsTestLine(f[i])}) <= MaxInstances}

\* Collections of one-dimensional unit vectors.
\*   Full:    d is the nearest word to b - a + c, e the farthest.
\*   Small:   the vocabulary is exactly the three query words.
\*   Partial: the query word c (and the answer d) has no embedding.
EmbFull == [w \in {Word("a"), Word("b"), Word("c"), Word("d"), Word("e")} |->
               IF w = Word("e") THEN -1 ELSE 1]

EmbSmall == [w \in {Word("a"), Word("b"), Word("c")} |-> 1]

EmbPartial == [w \in {Word("a"), Word("b")} |-> 1]

EmbeddingPool == {EmbFull, EmbSmall, EmbPartial}

---------------------------------------------------------------------------
(* Counts and the section-counts map. *)

\* Default for Counts.
CountsDefault == [n_correct |-> 0, n_instances |-> 0, n_skipped |-> 0, sum_cos |-> 0]

\* BTreeMap::new()
EmptyMap == <<>>

\* section_counts.entry(key).or_default(): the map afterwards.
or_default(map, key) ==
    IF key \in DOMAIN map THEN map
    ELSE [k \in (DOMAIN map) \cup {key} |-> IF k = key THEN CountsDefault ELSE map[k]]

\* BTreeMap iteration order: the keys in ascending order of String.
RECURSIVE SortedKeys(_)
SortedKeys(keys) ==
    IF keys = {} THEN <<>>
    ELSE LET least == CHOOSE k \in keys : \A o \in keys \ {k} : StrLess(k, o)
         IN <<least>> \o SortedKeys(keys \ {least})

\* Iteration in the order the sections first appear in the test file (a map
\* that keeps insertion order instead of key order).
RECURSIVE FirstSeen(_, _)
FirstSeen(insts, seen) ==
    IF insts = <<>> THEN <<>>
    ELSE IF Head(insts).section \in seen THEN FirstSeen(Tail(insts), seen)
    ELSE <<Head(insts).section>> \o FirstSeen(Tail(insts), seen \cup {Head(insts).section})

file_order_iter(map) ==
    SelectSeq(FirstSeen(instances, {}), LAMBDA sec : sec \in DOMAIN map)

btree_iter(map) == SortedKeys(DOMAIN map)

\* section_counts.values().map(f).sum()
RECURSIVE SumOver(_, _, _)
SumOver(map, keys, field) ==
    IF keys = {} THEN 0
    ELSE LET k == CHOOSE x \in keys : TRUE
         IN map[k][field] + SumOver(map, keys \ {k}, field)

values_sum(map, field) == SumOver(map, DOMAIN map, field)

---------------------------------------------------------------------------
(* The mutex around the map. *)

\* The thread that calls run (the workers are 1..NThreads).
MainThread == 0

\* A lock that never waits (the map shared without the Mutex).
MutexNeverWaits == TRUE

\* `mutex` is the set of threads holding a guard.  Mutex::lock returns once
\* no thread holds one.
MutexFree == mutex = {}

---------------------------------------------------------------------------
(* Floating-point division and the report lines. *)

\* a / b on floats: a zero divisor gives NaN (0/0) or an infinity, never a
\* panic.  A finite quotient is kept as the exact fraction.
FloatDiv(a, b) ==
    IF b = 0
    THEN [class |-> IF a = 0 THEN "NaN" ELSE "inf", num |-> a, den |-> b]
    ELSE [class |-> "finite", num |-> a, den |-> b]

\* {:.2}: the value in hundredths, rounded to nearest (away from zero on a
\* tie, which no quotient of the counts in reach hits); NaN and inf print as
\* such.
Fmt2(x) ==
    IF x.class # "finite" THEN [class |-> x.class, hundredths |-> 0, divisor |-> x.den]
    ELSE LET mag == IF x.num < 0 THEN -x.num ELSE x.num
             q   == (2 * 100 * mag + x.den) \div (2 * x.den)
         IN [class |-> "finite", hundredths |-> IF x.num < 0 THEN -q ELSE q,
             divisor |-> x.den]

\* The section line without the check for n_instances == 0.
print_section_unguarded(section, c) ==
    [stream |-> "stdout", kind |-> "section", section |-> section,
     n_correct |-> c.n_correct, n_instances |-> c.n_instances,
     accuracy |-> Fmt2(FloatDiv(100 * c.n_correct, c.n_instances)),
     avg_cos |-> Fmt2(FloatDiv(c.sum_cos, c.n_instances)),
     n_skipped |-> c.n_skipped]

\* Eval::print_section_accuracy: the line it prints.
print_section_accuracy(section, c) ==
    IF c.n_instances = 0
    THEN [stream |-> "stderr", kind |-> "no_instances", section |-> section]
    ELSE [stream |-> "stdout", kind |-> "section", section |-> section,
          n_correct |-> c.n_correct, n_instances |-> c.n_instances,
          accuracy |-> Fmt2(FloatDiv(100 * c.n_correct, c.n_instances)),
          avg_cos |-> Fmt2(FloatDiv(c.sum_cos, c.n_instances)),
          n_skipped |-> c.n_skipped]

\* Drop: the "Total:" line.
total_line(map) ==
    LET n_correct   == values_sum(map, "n_correct")
        n_instances == values_sum(map, "n_instances")
        sum         == values_sum(map, "sum_cos")
    IN [stream |-> "stdout", kind |-> "total",
        n_correct |-> n_correct, n_instances |-> n_instances,
        accuracy |-> Fmt2(FloatDiv(100 * n_correct, n_instances)),
        avg_cos |-> Fmt2(FloatDiv(sum, n_instances))]

\* Drop: the "Skipped:" line.  The percentage is printed with {} (no rounding).
skipped_line(map) ==
    LET n_instances == values_sum(map, "n_instances")
        n_skipped   == values_sum(map, "n_skipped")
        n_instances_with_skipped == n_instances + n_skipped
    IN [stream |-> "stdout", kind |-> "skipped",
        n_skipped |-> n_skipped,
        n_instances_with_skipped |-> n_instances_with_skipped,
        percent |-> FloatDiv(100 * n_skipped, n_instances_with_skipped)]

---------------------------------------------------------------------------
(* The state machine. *)

Init ==
    /\ file \in Files
    /\ embeddings \in EmbeddingPool
    /\ main_pc = "read"
    /\ instances = <<>>
    /\ item = <<>>
    /\ pc = [w \in Workers |-> "idle"]
    /\ cur = [w \in Workers |-> 0]
    /\ is_correct = [w \in Workers |-> FALSE]
    /\ cos = [w \in Workers |-> 0]
    /\ counts = [w \in Workers |-> CountsDefault]
    /\ mutex = {}
    /\ section_counts = EmptyMap
    /\ panicked = FALSE
    /\ iter = <<>>
    /\ out = <<>>
    /\ matches = <<>>
    /\ app = <<>>
    /\ lineno = 0
    /\ fs = <<>>
    /\ locals = <<>>
    /\ status = "running"

\* The instance worker w is evaluating.
Instance(w) == instances[cur[w]]

\* eval_analogy returns (or unwinds): the locals go out of scope.
Return(w, outcome) ==
    /\ item' = [item EXCEPT ![cur[w]] = outcome]
    /\ pc' = [pc EXCEPT ![w] = "idle"]
    /\ cur' = [cur EXCEPT ![w] = 0]
    /\ is_correct' = [is_correct EXCEPT ![w] = FALSE]
    /\ cos' = [cos EXCEPT ![w] = 0]
    /\ counts' = [counts EXCEPT ![w] = CountsDefault]

\* run: read_analogies(reader)?.  A panic inside read_analogies ends the
\* process before any Eval exists.
ReadAnalogies ==
    /\ main_pc = "read"
    /\ LET r == read_analogies(file) IN
       IF r.ok
       THEN /\ instances' = r.instances
            /\ item' = [i \in 1..Len(r.instances) |-> "pending"]
            /\ main_pc' = "new"
       ELSE /\ main_pc' = "aborted"
            /\ UNCHANGED <<instances, item>>
    /\ UNCHANGED <<file, embeddings, pc, cur, is_correct, cos, counts, mutex,
                   section_counts, panicked, iter, out>>
    /\ UNCHANGED cli_vars

\* Eval::new giving every section header of the file an entry at once.
EvalNewEager ==
    /\ main_pc = "new"
    /\ section_counts' =
          [s \in {skip(file[i], 2) : i \in {j \in DOMAIN file : ~IsTestLine(file[j])}}
              |-> CountsDefault]
    /\ mutex' = {}
    /\ main_pc' = "par_iter"
    /\ UNCHANGED <<file, embeddings, instances, item, pc, cur, is_correct, cos,
                   counts, panicked, iter, out>>
    /\ UNCHANGED cli_vars

\* process_analogies: let eval = Eval::new(embeddings), then the parallel
\* iterator starts.
EvalNew ==
    /\ main_pc = "new"
    /\ section_counts' = EmptyMap
    /\ mutex' = {}
    /\ main_pc' = "par_iter"
    /\ UNCHANGED <<file, embeddings, instances, item, pc, cur, is_correct, cos,
                   counts, panicked, iter, out>>
    /\ UNCHANGED cli_vars

\* par_iter().for_each: an idle worker is handed an instance no worker has
\* had yet, in no particular order, and calls eval.eval_analogy(instance),
\* which begins with the vocabulary lookup of the to-be-predicted word.
Start(w) ==
    /\ main_pc = "par_iter"
    /\ pc[w] = "idle"
    /\ \E i \in DOMAIN item :
          /\ item[i] = "pending"
          /\ item' = [item EXCEPT ![i] = "running"]
          /\ cur' = [cur EXCEPT ![w] = i]
          /\ pc' = [pc EXCEPT ![w] =
                       IF VocabHasWord(embeddings, instances[i].answer)
                       THEN "query" ELSE "lock_skip"]
    /\ UNCHANGED <<file, embeddings, main_pc, instances, is_correct, cos, counts,
                   mutex, section_counts, panicked, iter, out>>
    /\ UNCHANGED cli_vars

\* eval_analogy: embeddings.analogy(query, 1).map(|r| r.first().unwrap() ...)
\* .unwrap_or((false, 0.)).  An Err is scored (false, 0.); an Ok with no
\* candidate makes first() None, and the unwrap panics.
score(emb, instance) ==
    LET r == analogy(emb, instance.query, 1) IN
    IF ~r.ok THEN [panic |-> FALSE, is_correct |-> FALSE, cos |-> 0]
    ELSE IF r.results = <<>> THEN [panic |-> TRUE, is_correct |-> FALSE, cos |-> 0]
    ELSE [panic |-> FALSE,
          is_correct |-> r.results[1].word = instance.answer,
          cos |-> r.results[1].cos]

\* eval_analogy: the analogy query.  On a panic the closure unwinds without
\* touching the counts; rayon keeps the panic for the caller of for_each and
\* the worker thread goes on.
Query(w) ==
    /\ pc[w] = "query"
    /\ LET r == score(embeddings, Instance(w)) IN
       IF r.panic
       THEN /\ panicked' = TRUE
            /\ Return(w, "panicked")
       ELSE /\ is_correct' = [is_correct EXCEPT ![w] = r.is_correct]
            /\ cos' = [cos EXCEPT ![w] = r.cos]
            /\ pc' = [pc EXCEPT ![w] = "lock"]
            /\ UNCHANGED <<item, cur, counts, panicked>>
    /\ UNCHANGED <<file, embeddings, main_pc, instances, mutex, section_counts,
                   iter, out>>
    /\ UNCHANGED cli_vars

\* eval_analogy with the skip path taking no lock.
LockOnlyScored(w) ==
    /\ pc[w] \in {"lock_skip", "lock"}
    /\ pc[w] = "lock" => MutexFree
    /\ mutex' = IF pc[w] = "lock" THEN mutex \cup {w} ELSE mutex
    /\ pc' = [pc EXCEPT ![w] = IF pc[w] = "lock_skip" THEN "entry_skip" ELSE "entry"]
    /\ UNCHANGED <<file, embeddings, main_pc, instances, item, cur, is_correct, cos,
                   counts, section_counts, panicked, iter, out>>
    /\ UNCHANGED cli_vars

\* eval_analogy: self.section_counts.lock().unwrap(), on either path.
Lock(w) ==
    /\ pc[w] \in {"lock_skip", "lock"}
    /\ MutexFree
    /\ mutex' = mutex \cup {w}
    /\ pc' = [pc EXCEPT ![w] = IF pc[w] = "lock_skip" THEN "entry_skip" ELSE "entry"]
    /\ UNCHANGED <<file, embeddings, main_pc, instances, item, cur, is_correct, cos,
                   counts, section_counts, panicked, iter, out>>
    /\ UNCHANGED cli_vars

\* eval_analogy: let counts = section_counts.entry(section).or_default().
\* `counts` is an exclusive reference into the map; its fields are read here.
Entry(w) ==
    /\ pc[w] \in {"entry_skip", "entry"}
    /\ LET after == or_default(section_counts, Instance(w).section) IN
       /\ section_counts' = after
       /\ counts' = [counts EXCEPT ![w] = after[Instance(w).section]]
    /\ pc' = [pc EXCEPT ![w] = IF pc[w] = "entry_skip" THEN "inc_skipped" ELSE "inc_instances"]
    /\ UNCHANGED <<file, embeddings, main_pc, instances, item, cur, is_correct, cos,
                   mutex, panicked, iter, out>>
    /\ UNCHANGED cli_vars

\* A skip that also counts as an evaluated instance.
IncSkippedCountsInstance(w) ==
    /\ pc[w] = "inc_skipped"
    /\ section_counts' = [section_counts EXCEPT
                             ![Instance(w).section].n_skipped = counts[w].n_skipped + 1,
                             ![Instance(w).section].n_instances = counts[w].n_instances + 1]
    /\ mutex' = mutex \ {w}
    /\ Return(w, "skipped")
    /\ UNCHANGED <<file, embeddings, main_pc, instances, panicked, iter, out>>
    /\ UNCHANGED cli_vars

\* eval_analogy: counts.n_skipped += 1; return (the guard is dropped).
IncSkipped(w) ==
    /\ pc[w] = "inc_skipped"
    /\ section_counts' = [section_counts EXCEPT
                             ![Instance(w).section].n_skipped = counts[w].n_skipped + 1]
    /\ mutex' = mutex \ {w}
    /\ Return(w, "skipped")
    /\ UNCHANGED <<file, embeddings, main_pc, instances, panicked, iter, out>>
    /\ UNCHANGED cli_vars

\* The increment applied to the wrong counter.
IncInstancesWrongField(w) ==
    /\ pc[w] = "inc_instances"
    /\ section_counts' = [section_counts EXCEPT
                             ![Instance(w).section].n_correct = counts[w].n_correct + 1]
    /\ pc' = [pc EXCEPT ![w] = "inc_correct"]
    /\ UNCHANGED <<file, embeddings, main_pc, instances, item, cur, is_correct, cos,
                   counts, mutex, panicked, iter, out>>
    /\ UNCHANGED cli_vars

\* eval_analogy: counts.n_instances += 1
IncInstances(w) ==
    /\ pc[w] = "inc_instances"
    /\ section_counts' = [section_counts EXCEPT
                             ![Instance(w).section].n_instances = counts[w].n_instances + 1]
    /\ pc' = [pc EXCEPT ![w] = "inc_correct"]
    /\ UNCHANGED <<file, embeddings, main_pc, instances, item, cur, is_correct, cos,
                   counts, mutex, panicked, iter, out>>
    /\ UNCHANGED cli_vars

\* eval_analogy: if is_correct { counts.n_correct += 1 }; counts.sum_cos += cos;
\* the function ends and the guard is dropped.
AddCos(w) ==
    /\ pc[w] = "inc_correct"
    /\ section_counts' = [section_counts EXCEPT
             ![Instance(w).section].n_correct =
                 IF is_correct[w] THEN counts[w].n_correct + 1 ELSE @,
             ![Instance(w).section].sum_cos = counts[w].sum_cos + cos[w]]
    /\ mutex' = mutex \ {w}
    /\ Return(w, "scored")
    /\ UNCHANGED <<file, embeddings, main_pc, instances, panicked, iter, out>>
    /\ UNCHANGED cli_vars

\* for_each returns once no closure is running and every instance has been
\* handed out; after a panic it returns as soon as no closure is running and
\* resumes the panic in the caller, instances not yet handed out are
\* abandoned.  Either way `eval` then goes out of scope and is dropped.
Join ==
    /\ main_pc = "par_iter"
    /\ \A w \in Workers : pc[w] = "idle"
    /\ panicked \/ \A i \in DOMAIN item : item[i] # "pending"
    /\ main_pc' = "drop"
    /\ UNCHANGED <<file, embeddings, instances, item, pc, cur, is_correct, cos,
                   counts, mutex, section_counts, panicked, iter, out>>
    /\ UNCHANGED cli_vars

\* Drop for Eval: let section_counts = self.section_counts.lock().unwrap(),
\* and the iterator over the map is created.
DropLock ==
    /\ main_pc = "drop"
    /\ MutexFree
    /\ mutex' = mutex \cup {MainThread}
    /\ iter' = btree_iter(section_counts)
    /\ main_pc' = "sections"
    /\ UNCHANGED <<file, embeddings, instances, item, pc, cur, is_correct, cos,
                   counts, section_counts, panicked, out>>
    /\ UNCHANGED cli_vars

\* Drop for Eval: one turn of the loop over section_counts.iter().
PrintSection ==
    /\ main_pc = "sections"
    /\ iter # <<>>
    /\ out' = Append(out, print_section_accuracy(Head(iter), section_counts[Head(iter)]))
    /\ iter' = Tail(iter)
    /\ UNCHANGED <<file, embeddings, main_pc, instances, item, pc, cur, is_correct,
                   cos, counts, mutex, section_counts, panicked>>
    /\ UNCHANGED cli_vars

\* Drop for Eval: the loop is over; the overall counts are printed.
PrintTotal ==
    /\ main_pc = "sections"
    /\ iter = <<>>
    /\ out' = Append(out, total_line(section_counts))
    /\ main_pc' = "skipped"
    /\ UNCHANGED <<file, embeddings, instances, item, pc, cur, is_correct, cos,
                   counts, mutex, section_counts, panicked, iter>>
    /\ UNCHANGED cli_vars

\* Drop for Eval: the skip counts are printed, drop ends and the guard is
\* released.  run returns Ok(()), or the resumed panic ends the process.
PrintSkipped ==
    /\ main_pc = "skipped"
    /\ out' = Append(out, skipped_line(section_counts))
    /\ mutex' = mutex \ {MainThread}
    /\ main_pc' = IF panicked THEN "aborted" ELSE "done"
    /\ UNCHANGED <<file, embeddings, instances, item, pc, cur, is_correct, cos,
                   counts, section_counts, panicked, iter>>
    /\ UNCHANGED cli_vars

eval_analogy(w) ==
    \/ Query(w)
    \/ Lock(w)
    \/ Entry(w)
    \/ IncSkipped(w)
    \/ IncInstances(w)
    \/ AddCos(w)

Next ==
    \/ ReadAnalogies
    \/ EvalNew
    \/ \E w \in Workers : Start(w)
    \/ \E w \in Workers : eval_analogy(w)
    \/ Join
    \/ DropLock
    \/ PrintSection
    \/ PrintTotal
    \/ PrintSkipped

Spec == Init /\ [][Next]_vars

---------------------------------------------------------------------------
(* Vocabulary of the properties. *)

Fields == {"n_correct", "n_instances", "n_skipped", "sum_cos"}

\* A counter of a section; a section without an entry has counted nothing.
CounterOf(map, s, f) == IF s \in DOMAIN map THEN map[s][f] ELSE 0

\* The section labels of the test file, and the instances carrying a label.
SectionsOf(insts) == {insts[i].section : i \in DOMAIN insts}

InSection(s) == {i \in DOMAIN instances : instances[i].section = s}

\* Instances whose eval_analogy call has returned normally.
Finished(s) == {i \in InSection(s) : item[i] \in {"skipped", "scored"}}

\* Workers inside a scored update of section s: n_instances is written, the
\* call has not returned.
MidUpdate(s) == {w \in Workers : pc[w] = "inc_correct" /\ Instance(w).section = s}

\* The report is being printed or has been printed.
Reporting == main_pc \in {"sections", "skipped"} \/ out # <<>>

---------------------------------------------------------------------------
(* C1.  Under every interleaving of the workers no counter update is lost  *)
(* or duplicated: for every section, n_instances + n_skipped equals the    *)
(* number of eval_analogy calls on instances of that section that have     *)
(* applied their update, no other section has an entry, and the same holds *)
(* of the sums over all sections.                                          *)
C1_NoLostUpdate ==
    /\ \A s \in SectionsOf(instances) :
          CounterOf(section_counts, s, "n_instances")
            + CounterOf(section_counts, s, "n_skipped")
          = Cardinality(Finished(s)) + Cardinality(MidUpdate(s))
    /\ DOMAIN section_counts \subseteq SectionsOf(instances)
    /\ values_sum(section_counts, "n_instances") + values_sum(section_counts, "n_skipped")
          = Cardinality({i \in DOMAIN item : item[i] \in {"skipped", "scored"}})
            + Cardinality({w \in Workers : pc[w] = "inc_correct"})

\* Contention: a worker waits for the lock while another is inside its
\* update of the same section.
C1_Witness ==
    \E w1, w2 \in Workers :
        /\ w1 # w2
        /\ pc[w1] \in {"inc_skipped", "inc_instances", "inc_correct"}
        /\ pc[w2] \in {"lock_skip", "lock"}
        /\ Instance(w1).section = Instance(w2).section

(* C2.  When the report is produced, n_instances + n_skipped equals the    *)
(* number of test lines, for every section and over the whole file.        *)
C2_ReportCountsEveryLine ==
    Reporting =>
        /\ \A s \in SectionsOf(instances) :
              CounterOf(section_counts, s, "n_instances")
                + CounterOf(section_counts, s, "n_skipped")
              = Cardinality(InSection(s))
        /\ values_sum(section_counts, "n_instances")
             + values_sum(section_counts, "n_skipped") = Len(instances)

(* C3.  In every reachable state n_correct <= n_instances, for every       *)
(* section and for the sums over all sections.                             *)
C3_CorrectAtMostInstances ==
    /\ \A s \in DOMAIN section_counts :
          section_counts[s].n_correct <= section_counts[s].n_instances
    /\ values_sum(section_counts, "n_correct") <= values_sum(section_counts, "n_instances")

\* A correct instance between its two increments, in a section that already
\* counts a correct instance.
C3_Witness ==
    \E w \in Workers :
        /\ pc[w] = "inc_correct"
        /\ is_correct[w]
        /\ section_counts[Instance(w).section].n_correct = 1
        /\ section_counts[Instance(w).section].n_instances = 2

(* C4.  The final n_correct, n_instances and n_skipped of every section    *)
(* (hence of the global total) are the same under every interleaving of    *)
(* the workers: they are the counters that one worker taking the instances *)
(* in file order leaves behind.                                            *)
RECURSIVE SerialCounts(_, _, _)
SerialCounts(emb, insts, map) ==
    IF insts = <<>> THEN map
    ELSE LET inst == Head(insts)
             sec  == inst.section
             m    == or_default(map, sec)
         IN IF ~VocabHasWord(emb, inst.answer)
            THEN SerialCounts(emb, Tail(insts), [m EXCEPT ![sec].n_skipped = @ + 1])
            ELSE LET r == score(emb, inst) IN
                 IF r.panic THEN map
                 ELSE SerialCounts(emb, Tail(insts),
                         [m EXCEPT ![sec].n_instances = @ + 1,
                                   ![sec].n_correct = @ + (IF r.is_correct THEN 1 ELSE 0),
                                   ![sec].sum_cos = @ + r.cos])

IntegerCounters(c) ==
    [n_correct |-> c.n_correct, n_instances |-> c.n_instances, n_skipped |-> c.n_skipped]

SkipPath(w) == pc[w] \in {"lock_skip", "entry_skip", "inc_skipped"}

C5_SkippedIffAnswerMissing ==
    /\ \A i \in DOMAIN item :
          /\ item[i] = "skipped" => ~VocabHasWord(embeddings, instances[i].answer)
          /\ item[i] \in {"scored", "panicked"} => VocabHasWord(embeddings, instances[i].answer)
    /\ \A w \in Workers :
          pc[w] # "idle" => (SkipPath(w) <=> ~VocabHasWord(embeddings, Instance(w).answer))

C5_SkipStepFrame(w) ==
    \A s \in SectionsOf(instances), f \in Fields :
        CounterOf(section_counts', s, f) =
            CounterOf(section_counts, s, f)
              + (IF pc[w] = "inc_skipped" /\ s = Instance(w).section /\ f = "n_skipped"
                 THEN 1 ELSE 0)

C5_SkipOnlyCountsSkipped ==
    /\ []C5_SkippedIffAnswerMissing
    /\ [][\A w \in Workers : (SkipPath(w) /\ pc'[w] # pc[w]) => C5_SkipStepFrame(w)]_vars

\* An instance has been skipped in a file whose other section has scored an
\* instance.
C5_Witness ==
    \E i, j \in DOMAIN item :
        /\ item[i] = "skipped"
        /\ item[j] = "scored"
        /\ instances[i].section # instances[j].section
        /\ section_counts[instances[i].section] =
              [n_correct |-> 0, n_instances |-> 0, n_skipped |-> 1, sum_cos |-> 0]

(* C6.  Every instance whose gold answer is in the vocabulary is Scored:   *)
(* n_instances of its section counts it, n_correct counts it iff the       *)
(* candidate of the k = 1 query is the gold answer, and an unresolvable    *)
(* query scores as incorrect with cosine 0.                                *)
Candidate(i) == analogy(embeddings, instances[i].query, 1)

CandidateIsGold(i) ==
    /\ Candidate(i).ok
    /\ Candidate(i).results # <<>>
    /\ Candidate(i).results[1].word = instances[i].answer

CandidateCos(i) ==
    IF Candidate(i).ok /\ Candidate(i).results # <<>>
    THEN Candidate(i).results[1].cos ELSE 0

RECURSIVE SumCandidateCos(_)
SumCandidateCos(S) ==
    IF S = {} THEN 0
    ELSE LET i == CHOOSE x \in S : TRUE IN CandidateCos(i) + SumCandidateCos(S \ {i})

Scored(s) == {i \in InSection(s) : item[i] = "scored"}

C6_AnswerInVocabularyIsScored ==
    /\ \A i \in DOMAIN item :
          (item[i] \notin {"pending", "running"}
             /\ VocabHasWord(embeddings, instances[i].answer)) => item[i] = "scored"
    /\ \A s \in SectionsOf(instances) :
          /\ CounterOf(section_counts, s, "n_instances")
               = Cardinality(Scored(s)) + Cardinality(MidUpdate(s))
          /\ CounterOf(section_counts, s, "n_correct")
               = Cardinality({i \in Scored(s) : CandidateIsGold(i)})
          /\ CounterOf(section_counts, s, "sum_cos") = SumCandidateCos(Scored(s))

(* C7.  The report is generated exactly once and only after all instances  *)
(* have been processed: while or after a line is printed no instance is    *)
(* Pending or being evaluated, no worker is inside eval_analogy, and the    *)
(* total and skip lines appear at most once.                                *)
CountKind(kind) == Cardinality({k \in DOMAIN out : out[k].kind = kind})

C7_ReportOnceAfterAllInstances ==
    /\ Reporting =>
          /\ \A i \in DOMAIN item : item[i] \in {"skipped", "scored"}
          /\ \A w \in Workers : pc[w] = "idle"
    /\ CountKind("total") <= 1
    /\ CountKind("skipped") <= 1

(* C8.  A section whose n_instances is 0 at report time gets the line     *)
(* "no evaluation instances" and no quotient by n_instances; a section     *)
(* with n_instances > 0 gets correct/total, the accuracy and the average   *)
(* cosine (each the nearest hundredth of the quotient by n_instances) and  *)
(* the skip count.  Once the section loop is over every section with       *)
(* counters has its line.                                                  *)
SectionLines == {k \in DOMAIN out : out[k].kind \in {"section", "no_instances"}}

Abs(x) == IF x < 0 THEN -x ELSE x

\* h is the nearest hundredth of num / den (den > 0).
NearestHundredth(h, num, den) == 2 * Abs(h * den - 100 * num) <= den

C8_ZeroInstanceSectionsNotDivided ==
    /\ \A k \in SectionLines :
          LET c == section_counts[out[k].section] IN
          IF c.n_instances = 0
          THEN /\ out[k].kind = "no_instances"
               /\ DOMAIN out[k] = {"stream", "kind", "section"}
          ELSE /\ out[k].kind = "section"
               /\ out[k].n_correct = c.n_correct
               /\ out[k].n_instances = c.n_instances
               /\ out[k].n_skipped = c.n_skipped
               /\ out[k].accuracy.class = "finite"
               /\ out[k].accuracy.divisor = c.n_instances
               /\ NearestHundredth(out[k].accuracy.hundredths, 100 * c.n_correct, c.n_instances)
               /\ out[k].avg_cos.class = "finite"
               /\ out[k].avg_cos.divisor = c.n_instances
               /\ NearestHundredth(out[k].avg_cos.hundredths, c.sum_cos, c.n_instances)
    /\ CountKind("total") > 0 =>
          {out[k].section : k \in SectionLines} = DOMAIN section_counts

\* The finished report of a file in which one section has only a skipped
\* instance (n_skipped = 1, n_instances = 0) and another a scored one.
C8_Witness ==
    /\ main_pc = "done"
    /\ \E j, k \in SectionLines :
          /\ out[j].kind = "no_instances"
          /\ section_counts[out[j].section].n_skipped = 1
          /\ section_counts[out[j].section].n_instances = 0
          /\ out[k].kind = "section"

(* C9.  The two final divisions are guarded like the per-section line: no  *)
(* printed total divides by a summed n_instances of 0, and no printed skip *)
(* ratio divides by n_instances + n_skipped = 0.                           *)
C9_FinalDivisionsGuarded ==
    \A k \in DOMAIN out :
        /\ out[k].kind = "total" =>
              /\ out[k].accuracy.divisor # 0
              /\ out[k].avg_cos.divisor # 0
        /\ out[k].kind = "skipped" => out[k].percent.den # 0

(* C10.  The report lists the sections in ascending lexicographic order of *)
(* their labels, each section that has counters exactly once, whatever the *)
(* order of the sections in the file and of the workers' updates; the      *)
(* total and skip lines come after all section lines.                      *)
C10_SectionsInLexicographicOrder ==
    /\ \A j, k \in SectionLines : j < k => StrLess(out[j].section, out[k].section)
    /\ \A j \in DOMAIN out : \A k \in SectionLines :
          out[j].kind \in {"total", "skipped"} => k < j
    /\ CountKind("total") > 0 =>
          {out[k].section : k \in SectionLines} = DOMAIN section_counts

\* The file names section "b" before section "ab"; the finished report lists
\* "ab" before "b".
C10_Witness ==
    /\ main_pc = "done"
    /\ \E i, j \in DOMAIN instances :
          /\ i < j
          /\ instances[i].section = <<"b">>
          /\ instances[j].section = <<"a", "b">>
    /\ \E p, q \in SectionLines :
          /\ p < q
          /\ out[p].section = <<"a", "b">>
          /\ out[q].section = <<"b">>


---------------------------------------------------------------------------
(* The other subcommands main dispatches to: analogy, similar, quantize    *)
(* and reconstruct.  They share the input file, the embedding collection,  *)
(* the printed lines and the position of the main thread with the          *)
(* evaluator; the evaluator's own state stays as constructed.              *)

\* Bounds of the command-line tools.
\* Most lines of a query file (analogy, similar).
MaxQueries == 2

\* Largest -k given on the command line.
MaxK == 2

None == <<>>

EvalIdle ==
    /\ instances = <<>>
    /\ item = <<>>
    /\ pc = [w \in Workers |-> "idle"]
    /\ cur = [w \in Workers |-> 0]
    /\ is_correct = [w \in Workers |-> FALSE]
    /\ cos = [w \in Workers |-> 0]
    /\ counts = [w \in Workers |-> CountsDefault]
    /\ mutex = {}
    /\ section_counts = EmptyMap
    /\ panicked = FALSE
    /\ iter = <<>>

\* str::trim: leading and trailing whitespace removed.
RECURSIVE trim_start(_)
trim_start(s) == IF s # <<>> /\ Head(s) = " " THEN trim_start(Tail(s)) ELSE s

RECURSIVE trim_end(_)
trim_end(s) ==
    IF s # <<>> /\ s[Len(s)] = " " THEN trim_end(SubSeq(s, 1, Len(s) - 1)) ELSE s

\* The line taken as it was read.
trim_nothing(s) == s

trim(s) == trim_end(trim_start(s))

\* str::parse::<usize>: decimal digits only, at least one.
Digits == <<"0", "1", "2", "3", "4", "5", "6", "7", "8", "9">>

IsDigit(ch) == \E i \in 1..Len(Digits) : Digits[i] = ch

DigitValue(ch) == (CHOOSE i \in 1..Len(Digits) : Digits[i] = ch) - 1

RECURSIVE DecimalValue(_)
DecimalValue(s) ==
    IF s = <<>> THEN 0
    ELSE 10 * DecimalValue(SubSeq(s, 1, Len(s) - 1)) + DigitValue(s[Len(s)])

parse_usize(s) ==
    IF s # <<>> /\ \A i \in 1..Len(s) : IsDigit(s[i])
    THEN [ok |-> TRUE, value |-> DecimalValue(s)]
    ELSE [ok |-> FALSE, value |-> 0]

\* The angular measure printed as a distance: 0 for the same direction.
as_f32_distance(measure, result) ==
    IF measure = "angular"
    THEN (IF result.cos = 1 THEN 0 ELSE 1)
    ELSE result.cos

\* SimilarityMeasure::as_f32: the cosine similarity, or the angular
\* similarity 1 - acos(cos) / pi, which is 1 for cos = 1 and 0 for cos = -1.
as_f32(measure, result) ==
    IF measure = "angular"
    THEN (IF result.cos = 1 THEN 1 ELSE 0)
    ELSE result.cos

\* WordSimilarity::word_similarity(word, limit): None when the word has no
\* embedding; otherwise the words nearest to it, the word itself left out.
word_similarity(emb, word, limit) ==
    IF word \notin DOMAIN emb THEN [some |-> FALSE, results |-> <<>>]
    ELSE LET sims == {[word |-> w, cos |-> emb[w] * emb[word]] :
                          w \in (DOMAIN emb) \ {word}}
         IN [some |-> TRUE, results |-> Ranked(sims, limit)]

\* The values of --include: absent, or one to three of "a", "b", "c".
IncludeValues == {"a", "b", "c"}

IncludeArgs ==
    {None} \cup UNION {[1..n -> IncludeValues] : n \in 1..2}
           \cup {<<"a", "b", "c">>, <<"c", "a", "c">>}

\* The values of -k: numbers from 1 to MaxK, and one that is no number.
NeighborsArgs == {<<Digits[n + 1]>> : n \in 1..MaxK} \cup {<<"x">>}

\* Query files: lines with three tokens, with two, with a word of several
\* characters, blank lines.
QueryLinePool ==
    { <<"a", " ", "b", " ", "c">>,
      <<" ", "a", " ", "e", " ", "d", " ">>,
      <<"a", " ", "b">>,
      <<"e">>,
      <<"d">>,
      <<" ">> }

QueryFiles == UNION {[1..n -> QueryLinePool] : n \in 0..MaxQueries}

\* process::exit(1) / or_exit: the process ends at once with status 1.
Exit(message) ==
    /\ out' = Append(out, [stream |-> "stderr", kind |-> "error", context |-> message])
    /\ status' = "exit"
    /\ main_pc' = "exit"

\* AnalogyApp::parse: the exclusion mask from the --include values.
parse_excludes_inverted(include) ==
    IF include = None THEN <<TRUE, TRUE, TRUE>>
    ELSE LET set == {include[i] : i \in DOMAIN include} IN
         <<"a" \in set, "b" \in set, "c" \in set>>

parse_excludes(include) ==
    IF include = None THEN <<TRUE, TRUE, TRUE>>
    ELSE LET set == {include[i] : i \in DOMAIN include} IN
         <<"a" \notin set, "b" \notin set, "c" \notin set>>

\* AnalogyApp::run: the query handed to the solver without the mask.
solve_unmasked(emb, split_line, excludes, k) ==
    analogy_masked(emb, <<split_line[1], split_line[2], split_line[3]>>,
                   <<FALSE, FALSE, FALSE>>, k)

\* AnalogyApp::run: embeddings.analogy_masked([split_line[0], split_line[1],
\* split_line[2]], self.excludes, self.k)
solve(emb, split_line, excludes, k) ==
    analogy_masked(emb, <<split_line[1], split_line[2], split_line[3]>>, excludes, k)

\* tokens.iter().zip(flags).filter_map(...): the tokens whose flag is set, in
\* their order.
RECURSIVE SelectFrom(_, _, _)
SelectFrom(tokens, flags, i) ==
    IF i > Len(tokens) THEN <<>>
    ELSE (IF flags[i] THEN <<tokens[i]>> ELSE <<>>) \o SelectFrom(tokens, flags, i + 1)

\* The tokens that did resolve are named.
print_resolved_tokens(tokens, successful, n) ==
    [stream |-> "stderr", kind |-> "missing", line |-> n,
     tokens |-> SelectFrom(tokens, successful, 1)]

\* print_missing_tokens: "Could not compute embedding(s) for: " and the
\* tokens whose success flag is false, in their order, joined by ", ".
print_missing_tokens(tokens, successful, n) ==
    [stream |-> "stderr", kind |-> "missing", line |-> n,
     tokens |-> SelectFrom(tokens, [i \in DOMAIN successful |-> ~successful[i]], 1)]

\* The results printed last first.
print_results_reversed(results, measure, n) ==
    [i \in 1..Len(results) |->
        [stream |-> "stdout", kind |-> "result", line |-> n,
         word |-> results[Len(results) + 1 - i].word,
         score |-> as_f32(measure, results[Len(results) + 1 - i])]]

\* for result in results { println!("{}\t{}", result.word(), similarity.as_f32(&result)) }
print_results(results, measure, n) ==
    [i \in 1..Len(results) |->
        [stream |-> "stdout", kind |-> "result", line |-> n,
         word |-> results[i].word,
         score |-> as_f32(measure, results[i])]]


\* main returns the error: "Error: <context>" on stderr, exit status 1.
Fail(context) ==
    /\ out' = Append(out, [stream |-> "stderr", kind |-> "error", context |-> context])
    /\ status' = "error"
    /\ main_pc' = "exit"

\* AnalogyApp::parse
AnalogyParse ==
    /\ matches.subcommand = "analogy"
    /\ main_pc = "parse"
    /\ LET k == parse_usize(matches.neighbors) IN
       IF ~k.ok
       THEN /\ Fail("Cannot parse k")
            /\ UNCHANGED app
       ELSE /\ app' = [excludes |-> parse_excludes(matches.include),
                       k |-> k.value,
                       similarity |-> matches.similarity]
            /\ main_pc' = "run"
            /\ UNCHANGED <<out, status>>
    /\ UNCHANGED <<file, embeddings, matches, lineno, fs, locals>>
    /\ UNCHANGED eval_vars

\* AnalogyApp::run: read_embeddings_view(...)?, input.buf_read()?
AnalogyOpen ==
    /\ matches.subcommand = "analogy"
    /\ main_pc = "run"
    /\ IF fs.readable
       THEN /\ main_pc' = "lines"
            /\ UNCHANGED <<out, status>>
       ELSE Fail("Cannot read embeddings")
    /\ UNCHANGED <<file, embeddings, matches, app, lineno, fs, locals>>
    /\ UNCHANGED eval_vars

\* AnalogyApp::run: one turn of the loop over reader.lines().
AnalogyLine ==
    /\ matches.subcommand = "analogy"
    /\ main_pc = "lines"
    /\ lineno < Len(file)
    /\ lineno' = lineno + 1
    /\ LET line == trim(file[lineno + 1])
           split_line == split_whitespace(line)
       IN IF line = <<>>
          THEN UNCHANGED <<out, status, main_pc, locals>>
          ELSE IF Len(split_line) # 3
          THEN /\ Fail("Query does not consist of three tokens")
               /\ UNCHANGED locals
          ELSE LET r == solve(embeddings, split_line, app.excludes, app.k) IN
               /\ locals' = r
               /\ out' = out \o
                     (IF r.ok
                      THEN print_results(r.results, app.similarity, lineno + 1)
                      ELSE <<print_missing_tokens(split_line, r.success, lineno + 1)>>)
               /\ UNCHANGED <<status, main_pc>>
    /\ UNCHANGED <<file, embeddings, matches, app, fs>>
    /\ UNCHANGED eval_vars

\* AnalogyApp::run: the input is exhausted, Ok(()).
AnalogyEof ==
    /\ matches.subcommand = "analogy"
    /\ main_pc = "lines"
    /\ lineno = Len(file)
    /\ status' = "ok"
    /\ main_pc' = "exit"
    /\ UNCHANGED <<file, embeddings, out, matches, app, lineno, fs, locals>>
    /\ UNCHANGED eval_vars

\* SimilarApp::parse
SimilarParse ==
    /\ matches.subcommand = "similar"
    /\ main_pc = "parse"
    /\ LET k == parse_usize(matches.neighbors) IN
       IF ~k.ok
       THEN /\ Fail("Cannot parse number of neighbors")
            /\ UNCHANGED app
       ELSE /\ app' = [k |-> k.value, similarity |-> matches.similarity]
            /\ main_pc' = "run"
            /\ UNCHANGED <<out, status>>
    /\ UNCHANGED <<file, embeddings, matches, lineno, fs, locals>>
    /\ UNCHANGED eval_vars

\* SimilarApp::run: read_embeddings_view(...)?, input.buf_read()?
SimilarOpen ==
    /\ matches.subcommand = "similar"
    /\ main_pc = "run"
    /\ IF fs.readable
       THEN /\ main_pc' = "lines"
            /\ UNCHANGED <<out, status>>
       ELSE Fail("Cannot read embeddings")
    /\ UNCHANGED <<file, embeddings, matches, app, lineno, fs, locals>>
    /\ UNCHANGED eval_vars

\* A word without embedding ends the run with an error.
SimilarLineMissFatal ==
    /\ matches.subcommand = "similar"
    /\ main_pc = "lines"
    /\ lineno < Len(file)
    /\ lineno' = lineno + 1
    /\ LET line == trim(file[lineno + 1]) IN
       IF line = <<>>
       THEN UNCHANGED <<out, locals, main_pc, status>>
       ELSE LET r == word_similarity(embeddings, line, app.k) IN
            /\ locals' = r
            /\ IF r.some
               THEN /\ out' = out \o print_results(r.results, app.similarity, lineno + 1)
                    /\ UNCHANGED <<main_pc, status>>
               ELSE Fail("Could not compute embedding")
    /\ UNCHANGED <<file, embeddings, matches, app, fs>>
    /\ UNCHANGED eval_vars

\* SimilarApp::run: one turn of the loop over reader.lines().
SimilarLine ==
    /\ matches.subcommand = "similar"
    /\ main_pc = "lines"
    /\ lineno < Len(file)
    /\ lineno' = lineno + 1
    /\ LET line == trim(file[lineno + 1]) IN
       IF line = <<>>
       THEN UNCHANGED <<out, locals>>
       ELSE LET r == word_similarity(embeddings, line, app.k) IN
            /\ locals' = r
            /\ out' = out \o
                  (IF r.some
                   THEN print_results(r.results, app.similarity, lineno + 1)
                   ELSE <<[stream |-> "stderr", kind |-> "missing", line |-> lineno + 1,
                           tokens |-> <<line>>]>>)
    /\ UNCHANGED <<file, embeddings, main_pc, matches, app, fs, status>>
    /\ UNCHANGED eval_vars

\* SimilarApp::run: the input is exhausted, Ok(()).
SimilarEof ==
    /\ matches.subcommand = "similar"
    /\ main_pc = "lines"
    /\ lineno = Len(file)
    /\ status' = "ok"
    /\ main_pc' = "exit"
    /\ UNCHANGED <<file, embeddings, out, matches, app, lineno, fs, locals>>
    /\ UNCHANGED eval_vars

(* The standalone binary ff-analogy (bin/ff-analogy.rs). *)

\* println!("{}\t{}", analogy.word, analogy.similarity)
print_analogies(results, n) ==
    [i \in 1..Len(results) |->
        [stream |-> "stdout", kind |-> "result", line |-> n,
         word |-> results[i].word,
         score |-> results[i].cos]]

\* main: config_from_matches(&matches)
FfAnalogyConfig ==
    /\ matches.subcommand = "ff-analogy"
    /\ main_pc = "parse"
    /\ LET k == parse_usize(matches.neighbors) IN
       IF ~k.ok
       THEN /\ Exit("Cannot parse k")
            /\ UNCHANGED app
       ELSE /\ app' = [excludes |-> parse_excludes(matches.include), k |-> k.value]
            /\ main_pc' = "run"
            /\ UNCHANGED <<out, status>>
    /\ UNCHANGED <<file, embeddings, matches, lineno, fs, locals>>
    /\ UNCHANGED eval_vars

\* main: read_embeddings_view(..).or_exit(..), input.buf_read().or_exit(..)
FfAnalogyOpen ==
    /\ matches.subcommand = "ff-analogy"
    /\ main_pc = "run"
    /\ IF fs.readable
       THEN /\ main_pc' = "lines"
            /\ UNCHANGED <<out, status>>
       ELSE Exit("Cannot read embeddings")
    /\ UNCHANGED <<file, embeddings, matches, app, lineno, fs, locals>>
    /\ UNCHANGED eval_vars

\* A query that is not three tokens is reported and the loop goes on.
FfAnalogyLineLenient ==
    /\ matches.subcommand = "ff-analogy"
    /\ main_pc = "lines"
    /\ lineno < Len(file)
    /\ lineno' = lineno + 1
    /\ LET line == trim(file[lineno + 1])
           split_line == split_whitespace(line)
       IN IF line = <<>>
          THEN UNCHANGED <<out, status, main_pc, locals>>
          ELSE IF Len(split_line) # 3
          THEN /\ out' = Append(out, [stream |-> "stderr", kind |-> "error",
                                      context |-> "Query does not consist of three tokens"])
               /\ UNCHANGED <<status, main_pc, locals>>
          ELSE LET r == solve(embeddings, split_line, app.excludes, app.k) IN
               /\ locals' = r
               /\ out' = out \o
                     (IF r.ok
                      THEN print_analogies(r.results, lineno + 1)
                      ELSE <<print_missing_tokens(split_line, r.success, lineno + 1)>>)
               /\ UNCHANGED <<status, main_pc>>
    /\ UNCHANGED <<file, embeddings, matches, app, fs>>
    /\ UNCHANGED eval_vars

\* main: one turn of the loop over reader.lines().
FfAnalogyLine ==
    /\ matches.subcommand = "ff-analogy"
    /\ main_pc = "lines"
    /\ lineno < Len(file)
    /\ lineno' = lineno + 1
    /\ LET line == trim(file[lineno + 1])
           split_line == split_whitespace(line)
       IN IF line = <<>>
          THEN UNCHANGED <<out, status, main_pc, locals>>
          ELSE IF Len(split_line) # 3
          THEN /\ Exit("Query does not consist of three tokens")
               /\ UNCHANGED locals
          ELSE LET r == solve(embeddings, split_line, app.excludes, app.k) IN
               /\ locals' = r
               /\ out' = out \o
                     (IF r.ok
                      THEN print_analogies(r.results, lineno + 1)
                      ELSE <<print_missing_tokens(split_line, r.success, lineno + 1)>>)
               /\ UNCHANGED <<status, main_pc>>
    /\ UNCHANGED <<file, embeddings, matches, app, fs>>
    /\ UNCHANGED eval_vars

\* main: the input is exhausted, main returns.
FfAnalogyEof ==
    /\ matches.subcommand = "ff-analogy"
    /\ main_pc = "lines"
    /\ lineno = Len(file)
    /\ status' = "ok"
    /\ main_pc' = "exit"
    /\ UNCHANGED <<file, embeddings, out, matches, app, lineno, fs, locals>>
    /\ UNCHANGED eval_vars

\* a and c point one way, b and d the other.
EmbMixed == [w \in {Word("a"), Word("b"), Word("c"), Word("d")} |->
                IF w \in {Word("a"), Word("c")} THEN 1 ELSE -1]

QueryEmbeddings == {EmbFull, EmbSmall, EmbMixed}

\* The command lines of the two query tools.
AnalogyMatches ==
    [subcommand : {"analogy"}, include : IncludeArgs, neighbors : NeighborsArgs,
     similarity : {"cosine", "angular"}]

SimilarMatches ==
    [subcommand : {"similar"}, neighbors : NeighborsArgs,
     similarity : {"cosine", "angular"}]

\* The command lines of ff-analogy, which has no similarity option.
FfAnalogyMatches ==
    [subcommand : {"ff-analogy"}, include : {None, <<"a", "b", "c">>},
     neighbors : NeighborsArgs]

QueryInit ==
    /\ matches \in AnalogyMatches \cup SimilarMatches \cup FfAnalogyMatches
    /\ file \in QueryFiles
    /\ embeddings \in QueryEmbeddings
    /\ fs \in [readable : BOOLEAN]
    /\ main_pc = "parse"
    /\ app = None
    /\ lineno = 0
    /\ locals = None
    /\ out = <<>>
    /\ status = "running"
    /\ EvalIdle

QueryNext ==
    \/ AnalogyParse
    \/ AnalogyOpen
    \/ AnalogyLine
    \/ AnalogyEof
    \/ SimilarParse
    \/ SimilarOpen
    \/ SimilarLine
    \/ SimilarEof
    \/ FfAnalogyConfig
    \/ FfAnalogyOpen
    \/ FfAnalogyLine
    \/ FfAnalogyEof

SpecQuery == QueryInit /\ [][QueryNext]_vars


---------------------------------------------------------------------------
(* Vocabulary of the properties of the query tools. *)

IsAnalogy == matches.subcommand = "analogy"

IsSimilar == matches.subcommand = "similar"

\* The tokens of input line n, as the tools see them.
QueryOf(n) == split_whitespace(trim(file[n]))

\* What was printed for input line n.
ResultLines(n) == SelectSeq(out, LAMBDA e : e.kind = "result" /\ e.line = n)

MissingLines(n) == SelectSeq(out, LAMBDA e : e.kind = "missing" /\ e.line = n)

ResultWords(n) == {ResultLines(n)[j].word : j \in DOMAIN ResultLines(n)}

Resolvable(word) == word \in DOMAIN embeddings

\* A well-formed analogy query whose three words all have an embedding.
Solvable(n) ==
    Len(QueryOf(n)) = 3 /\ \A i \in 1..3 : Resolvable(QueryOf(n)[i])

\* A well-formed analogy query with a word that has no embedding.
Unresolved(n) ==
    Len(QueryOf(n)) = 3 /\ \E i \in 1..3 : ~Resolvable(QueryOf(n)[i])

\* The j-th smallest element of a set of numbers.
NthSmallest(S, j) == CHOOSE x \in S : Cardinality({y \in S : y < x}) = j - 1

---------------------------------------------------------------------------
\* C11: for every analogy query whose three words are in the vocabulary, at
\* most k result lines are printed, no word of a token whose exclude flag is
\* set is among them, and a token whose flag is not set is an eligible
\* answer: it is among the results unless the k results are full.
C11_MaskedAnalogyResults ==
    IsAnalogy =>
        \A n \in 1..lineno :
            Solvable(n) =>
                LET q == QueryOf(n) IN
                /\ Len(ResultLines(n)) <= app.k
                /\ \A i \in 1..3 : app.excludes[i] => q[i] \notin ResultWords(n)
                /\ \A i \in 1..3 :
                      (\A j \in 1..3 : q[j] = q[i] => ~app.excludes[j])
                          => \/ q[i] \in ResultWords(n)
                             \/ Len(ResultLines(n)) = app.k

\* A query answered with one of its own words, which --include allowed,
\* while another of its words was excluded and k did not cut the results.
C11_Witness ==
    /\ IsAnalogy
    /\ \E n \in 1..lineno :
          /\ Solvable(n)
          /\ Len(ResultLines(n)) < app.k
          /\ \E i, j \in 1..3 :
                /\ app.excludes[i]
                /\ ~app.excludes[j]
                /\ QueryOf(n)[j] \in ResultWords(n)

---------------------------------------------------------------------------
TokenNames == <<"a", "b", "c">>

Included(t) ==
    matches.include # None /\ \E j \in DOMAIN matches.include : matches.include[j] = t

\* C12: the exclusion mask of the parsed AnalogyApp excludes token t exactly
\* when t is not among the --include values, all three without --include;
\* and each of the 8 masks is the mask of some --include.
C12_MaskFromInclude ==
    /\ (IsAnalogy /\ app # None) =>
           \A i \in 1..3 : app.excludes[i] = ~Included(TokenNames[i])
    /\ \A mask \in [1..3 -> BOOLEAN] :
           \E include \in IncludeArgs : parse_excludes(include) = mask

\* --include c a c was parsed: only b is excluded.
C12_Witness ==
    /\ IsAnalogy
    /\ app # None
    /\ matches.include = <<"c", "a", "c">>
    /\ app.excludes = <<FALSE, TRUE, FALSE>>

---------------------------------------------------------------------------
\* C13: when a word of an analogy query has no embedding, the solver's error
\* is the mask of the words that resolved, no result line is printed for the
\* query, and exactly one diagnostic names the unresolved tokens, those
\* only, in query order.
C13_MissingTokensNamed ==
    IsAnalogy =>
        \A n \in 1..lineno :
            Unresolved(n) =>
                LET q == QueryOf(n)
                    missing == {i \in 1..3 : ~Resolvable(q[i])}
                    named == MissingLines(n)[1].tokens
                IN /\ ResultLines(n) = <<>>
                   /\ Len(MissingLines(n)) = 1
                   /\ Len(named) = Cardinality(missing)
                   /\ \A j \in 1..Len(named) : named[j] = q[NthSmallest(missing, j)]
                   /\ n = lineno =>
                         /\ ~locals.ok
                         /\ \A i \in 1..3 : locals.success[i] = Resolvable(q[i])

\* A query with one resolved and two unresolved words has been reported.
C13_Witness ==
    /\ IsAnalogy
    /\ \E n \in 1..lineno :
          /\ Unresolved(n)
          /\ Len(MissingLines(n)) = 1
          /\ Len(MissingLines(n)[1].tokens) = 2

---------------------------------------------------------------------------
ConfigFailure == ~parse_usize(matches.neighbors).ok

IoFailure == ~fs.readable

\* Input line n is a vocabulary miss: an analogy query with an unresolved
\* word, a similarity query for a word without embedding.
VocabularyMiss(n) ==
    \/ matches.subcommand \in {"analogy", "ff-analogy"} /\ Unresolved(n)
    \/ IsSimilar /\ trim(file[n]) # <<>> /\ ~Resolvable(trim(file[n]))

\* The analogy tool's last line read is neither blank nor three tokens.
MalformedQuery ==
    matches.subcommand \in {"analogy", "ff-analogy"} /\ lineno >= 1 /\ Len(QueryOf(lineno)) \notin {0, 3}

\* C14 as stated: the run ends in an error only for a configuration or an
\* I/O failure, and once the embeddings are read every input line is
\* processed.
C14_OnlyConfigOrIoFailuresEndRun ==
    /\ status = "error" => ConfigFailure \/ IoFailure
    /\ (main_pc = "exit" /\ ~ConfigFailure /\ ~IoFailure) => lineno = Len(file)

\* C14 amended: a vocabulary miss leaves one diagnostic on stderr, nothing on
\* stdout, and never ends the run; the run ends in an error only for a
\* configuration failure, an I/O failure or an analogy query that does not
\* consist of three tokens, and short of such a query every line is
\* processed.
C14_VocabularyMissNeverEndsRun ==
    /\ status \in {"error", "exit"} => ConfigFailure \/ IoFailure \/ MalformedQuery
    /\ (main_pc = "exit" /\ ~ConfigFailure /\ ~IoFailure /\ ~MalformedQuery)
           => lineno = Len(file) /\ status = "ok"
    /\ \A n \in 1..lineno :
           VocabularyMiss(n) =>
               /\ Len(MissingLines(n)) = 1
               /\ ResultLines(n) = <<>>
               /\ (n < Len(file) /\ main_pc = "exit") => lineno > n

\* A run that met a vocabulary miss on its first line and went on to print
\* results for the second.
C14_Witness ==
    /\ main_pc = "exit"
    /\ status = "ok"
    /\ lineno = 2
    /\ VocabularyMiss(1)
    /\ ResultLines(2) # <<>>

---------------------------------------------------------------------------
\* C15: for a query word that has an embedding, the similar tool prints at
\* most k results, never the query word itself, in order of non-increasing
\* score.
C15_SimilarResultsRanked ==
    IsSimilar =>
        \A n \in 1..lineno :
            Resolvable(trim(file[n])) =>
                LET R == ResultLines(n) IN
                /\ Len(R) <= app.k
                /\ \A j \in 1..Len(R) : R[j].word # trim(file[n])
                /\ \A j \in 1..(Len(R) - 1) : R[j].score >= R[j + 1].score

\* Two results of different scores were printed for a query word.
C15_Witness ==
    /\ IsSimilar
    /\ \E n \in 1..lineno :
          /\ Resolvable(trim(file[n]))
          /\ Len(ResultLines(n)) = 2
          /\ ResultLines(n)[1].score > ResultLines(n)[2].score


---------------------------------------------------------------------------
(* quantize and reconstruct.  A vector is a multiple of one unit vector of *)
(* the d-dimensional space and is written as that multiple, so norms,      *)
(* cosines and distances are exact; d itself only decides the default      *)
(* number of subquantizers.                                                *)

\* Most rows of an embedding matrix given to quantize or reconstruct.
MaxRows == 2

\* The multiples the rows are drawn from.
RowValues == {-2, 0, 1}

RowWords == <<Word("a"), Word("b"), Word("c"), Word("d"), Word("e")>>

\* The embedding matrices quantize is run on: one row per word.
Matrices ==
    UNION {[{RowWords[i] : i \in 1..n} -> RowValues] : n \in 1..MaxRows}

\* util::l2_normalize: the norm is returned, the vector divided by it unless
\* the norm is zero.
l2_normalize(v) == [norm |-> Abs(v), v |-> IF Abs(v) # 0 THEN Sign(v) ELSE v]

\* util::l2_normalize_array: every row normalised, the norms collected.
l2_normalize_array(rows) ==
    [norms |-> [i \in DOMAIN rows |-> l2_normalize(rows[i]).norm],
     rows  |-> [i \in DOMAIN rows |-> l2_normalize(rows[i]).v]]

\* quantize::cosine_similarity: u.dot(v) / (u_norm * v_norm), NaN when a norm
\* is zero; the value is then 1 or -1.
cosine_similarity(u, v) == FloatDiv(u * v, Abs(u) * Abs(v))

\* quantize::euclidean_distance
euclidean_distance(u, v) == Abs(u - v)

\* f32 addition of a running sum (a number, or NaN) and a quotient.
AddFloat(sum, q) ==
    IF sum.class = "NaN" \/ q.class = "NaN" THEN [class |-> "NaN", value |-> 0]
    ELSE [class |-> "finite", value |-> sum.value + q.num \div q.den]

RECURSIVE SumCosine(_, _, _)
SumCosine(storage, quantized_storage, words) ==
    IF words = {} THEN [class |-> "finite", value |-> 0]
    ELSE LET w == CHOOSE x \in words : TRUE IN
         AddFloat(SumCosine(storage, quantized_storage, words \ {w}),
                  cosine_similarity(storage[w], quantized_storage[w]))

RECURSIVE SumDistance(_, _, _)
SumDistance(storage, quantized_storage, words) ==
    IF words = {} THEN 0
    ELSE LET w == CHOOSE x \in words : TRUE IN
         SumDistance(storage, quantized_storage, words \ {w})
             + euclidean_distance(storage[w], quantized_storage[w])

\* quantize::print_loss: the two averages, as printed on stderr.
print_loss(storage, quantized_storage) ==
    LET nrows == Cardinality(DOMAIN storage)
        cosine_similarity_sum == SumCosine(storage, quantized_storage, DOMAIN storage)
        euclidean_distance_sum == SumDistance(storage, quantized_storage, DOMAIN storage)
    IN << [stream |-> "stderr", kind |-> "loss", metric |-> "cosine",
           value |-> IF cosine_similarity_sum.class = "NaN"
                     THEN FloatDiv(0, 0)
                     ELSE FloatDiv(cosine_similarity_sum.value, nrows)],
          [stream |-> "stderr", kind |-> "loss", metric |-> "euclidean",
           value |-> FloatDiv(euclidean_distance_sum, nrows)] >>

\* The values of -b and of -s; the values of -q, one of them not among the
\* possible_values.
BitsArgs == {<<"0">>, <<"1">>, <<"8">>, <<"9">>, <<"x">>}

SubquantizersArgs == {None, <<"2">>, <<"x">>}

QuantizerArgs == {"pq", "opq", "gaussian_opq", "kmeans"}

QuantizerPossibleValues == {"gaussian_opq", "opq", "pq"}

\* The quantizers quantize_embeddings matches, by cargo feature.
SupportedQuantizers(feature_opq) ==
    IF feature_opq THEN {"pq", "opq", "gaussian_opq"} ELSE {"pq"}

\* Embeddings::quantize, the training collaborator: an error unless the
\* subquantizers divide the dimensionality; otherwise some reconstruction
\* per row.
QuantizeOutcomes(storage, dims, n_subquantizers) ==
    IF n_subquantizers = 0 \/ dims % n_subquantizers # 0
    THEN {[ok |-> FALSE, storage |-> None]}
    ELSE {[ok |-> TRUE, storage |-> q] : q \in [DOMAIN storage -> RowValues]}

\* main: cli.get_matches().  clap rejects a -q outside possible_values.
QuantizeGetMatches ==
    /\ matches.subcommand = "quantize"
    /\ main_pc = "args"
    /\ IF matches.quantizer \in QuantizerPossibleValues
       THEN /\ main_pc' = "parse"
            /\ UNCHANGED <<out, status>>
       ELSE Exit("isn't a valid value for '--quantizer'")
    /\ UNCHANGED <<file, embeddings, matches, app, lineno, fs, locals>>
    /\ UNCHANGED eval_vars

\* QuantizeApp::parse without the check of the bits.
QuantizeParseUnchecked ==
    /\ matches.subcommand = "quantize"
    /\ main_pc = "parse"
    /\ LET n_subquantizers == IF matches.n_subquantizers = None THEN [ok |-> TRUE, value |-> 0]
                              ELSE parse_usize(matches.n_subquantizers)
           quantizer_bits == parse_usize(matches.quantizer_bits)
       IN IF ~n_subquantizers.ok
          THEN Fail("Cannot parse number of subquantizers") /\ UNCHANGED app
          ELSE IF ~quantizer_bits.ok
          THEN Fail("Cannot parse number of quantizer_bits") /\ UNCHANGED app
          ELSE /\ app' = [n_subquantizers |->
                              IF matches.n_subquantizers = None THEN None
                              ELSE <<n_subquantizers.value>>,
                          quantizer |-> matches.quantizer,
                          quantizer_bits |-> quantizer_bits.value]
               /\ main_pc' = "run"
               /\ UNCHANGED <<out, status>>
    /\ UNCHANGED <<file, embeddings, matches, lineno, fs, locals>>
    /\ UNCHANGED eval_vars

\* QuantizeApp::parse
QuantizeParse ==
    /\ matches.subcommand = "quantize"
    /\ main_pc = "parse"
    /\ LET n_subquantizers == IF matches.n_subquantizers = None THEN [ok |-> TRUE, value |-> 0]
                              ELSE parse_usize(matches.n_subquantizers)
           quantizer_bits == parse_usize(matches.quantizer_bits)
       IN IF ~n_subquantizers.ok
          THEN Fail("Cannot parse number of subquantizers") /\ UNCHANGED app
          ELSE IF ~quantizer_bits.ok
          THEN Fail("Cannot parse number of quantizer_bits") /\ UNCHANGED app
          ELSE IF ~(quantizer_bits.value > 0 /\ quantizer_bits.value <= 8)
          THEN Fail("The number of quantizer bits should be in [1, 8]") /\ UNCHANGED app
          ELSE /\ app' = [n_subquantizers |->
                              IF matches.n_subquantizers = None THEN None
                              ELSE <<n_subquantizers.value>>,
                          quantizer |-> matches.quantizer,
                          quantizer_bits |-> quantizer_bits.value]
               /\ main_pc' = "run"
               /\ UNCHANGED <<out, status>>
    /\ UNCHANGED <<file, embeddings, matches, lineno, fs, locals>>
    /\ UNCHANGED eval_vars

\* QuantizeApp::run: the thread pool is built and the embeddings are read.
QuantizeRead ==
    /\ matches.subcommand = "quantize"
    /\ main_pc = "run"
    /\ IF fs.readable
       THEN /\ fs' = [fs EXCEPT !.read = TRUE]
            /\ locals' = [embeddings |-> embeddings, quantized_embeddings |-> None]
            /\ main_pc' = "quantize"
            /\ UNCHANGED <<out, status>>
       ELSE /\ Fail("Cannot read embeddings")
            /\ UNCHANGED <<fs, locals>>
    /\ UNCHANGED <<file, embeddings, matches, app, lineno>>
    /\ UNCHANGED eval_vars

\* QuantizeApp::run: quantize_embeddings(&self, &embeddings)?
QuantizeTrain ==
    /\ matches.subcommand = "quantize"
    /\ main_pc = "quantize"
    /\ LET n_subquantizers == IF app.n_subquantizers = None THEN fs.dims \div 2
                              ELSE app.n_subquantizers[1]
       IN IF app.quantizer \in SupportedQuantizers(fs.feature_opq)
          THEN \E q \in QuantizeOutcomes(locals.embeddings, fs.dims, n_subquantizers) :
                  IF q.ok
                  THEN /\ locals' = [locals EXCEPT !.quantized_embeddings = q.storage]
                       /\ main_pc' = "write"
                       /\ UNCHANGED <<out, status>>
                  ELSE /\ Fail("quantize")
                       /\ UNCHANGED locals
          ELSE /\ Exit("Unknown quantizer")
               /\ UNCHANGED locals
    /\ UNCHANGED <<file, embeddings, matches, app, lineno, fs>>
    /\ UNCHANGED eval_vars

\* QuantizeApp::run: write_embeddings(&quantized_embeddings, ...)?
QuantizeWrite ==
    /\ matches.subcommand = "quantize"
    /\ main_pc = "write"
    /\ IF fs.writable
       THEN /\ fs' = [fs EXCEPT !.output = locals.quantized_embeddings]
            /\ main_pc' = "loss"
            /\ UNCHANGED <<out, status>>
       ELSE /\ Fail("Cannot create embeddings file")
            /\ UNCHANGED fs
    /\ UNCHANGED <<file, embeddings, matches, app, lineno, locals>>
    /\ UNCHANGED eval_vars

\* The run fails when a metric is not a number.
QuantizePrintLossGated ==
    /\ matches.subcommand = "quantize"
    /\ main_pc = "loss"
    /\ LET loss == print_loss(locals.embeddings, locals.quantized_embeddings) IN
       IF \E i \in 1..2 : loss[i].value.class = "NaN"
       THEN Fail("loss")
       ELSE /\ out' = out \o loss
            /\ status' = "ok"
            /\ main_pc' = "exit"
    /\ UNCHANGED <<file, embeddings, matches, app, lineno, fs, locals>>
    /\ UNCHANGED eval_vars

\* QuantizeApp::run: print_loss(...); Ok(())
QuantizePrintLoss ==
    /\ matches.subcommand = "quantize"
    /\ main_pc = "loss"
    /\ out' = out \o print_loss(locals.embeddings, locals.quantized_embeddings)
    /\ status' = "ok"
    /\ main_pc' = "exit"
    /\ UNCHANGED <<file, embeddings, matches, app, lineno, fs, locals>>
    /\ UNCHANGED eval_vars


\* The codebook of the quantized storages reconstruct is run on, and the
\* norms a file that has norms stores for its words.
Codebook == <<-2, 0, 1>>

StoredNorms(vocab_len) == [i \in 1..vocab_len |-> 3]

\* Quantized embedding files: the codes of the vocabulary's words, then those
\* of the bucket rows a subword vocabulary adds; norms or none.
QuantizedFiles ==
    UNION {[storage   : [codebook : {Codebook}, codes : {codes}],
            vocab_len : {vocab_len},
            norms     : {None, StoredNorms(vocab_len)}] :
               <<codes, vocab_len>> \in
                   {<<c, v>> \in (UNION {[1..n -> DOMAIN Codebook] : n \in 1..MaxRows})
                                     \X (1..MaxRows) : v <= Len(c)}}

\* Storage::shape and Storage::embedding of a quantized storage: the row is
\* decompressed from its code.
shape(storage) == <<Len(storage.codes), 1>>

embedding(storage, idx) == storage.codebook[storage.codes[idx]]

\* Every row is normalised after it is assigned.
reconstruct_storage_normalized(storage) ==
    l2_normalize_array([idx \in 1..shape(storage)[1] |-> embedding(storage, idx)]).rows

\* reconstruct::reconstruct_storage
reconstruct_storage(storage) ==
    [idx \in 1..shape(storage)[1] |-> embedding(storage, idx)]

\* ReconstructApp::parse
ReconstructParse ==
    /\ matches.subcommand = "reconstruct"
    /\ main_pc = "parse"
    /\ app' = [input_format |-> matches.input_format]
    /\ main_pc' = "run"
    /\ UNCHANGED <<file, embeddings, out, matches, lineno, fs, locals, status>>
    /\ UNCHANGED eval_vars

\* ReconstructApp::run: read_quantized_embeddings(...).or_exit(...), into_parts
ReconstructRead ==
    /\ matches.subcommand = "reconstruct"
    /\ main_pc = "run"
    /\ IF fs.readable
       THEN /\ locals' = [vocab_len |-> fs.input.vocab_len,
                          storage |-> fs.input.storage,
                          norms |-> fs.input.norms,
                          reconstructed_storage |-> None]
            /\ main_pc' = "reconstruct"
            /\ UNCHANGED <<out, status>>
       ELSE /\ Exit("Cannot read embeddings")
            /\ UNCHANGED locals
    /\ UNCHANGED <<file, embeddings, matches, app, lineno, fs>>
    /\ UNCHANGED eval_vars

\* ReconstructApp::run: let reconstructed_storage = reconstruct_storage(&storage)
ReconstructStorage ==
    /\ matches.subcommand = "reconstruct"
    /\ main_pc = "reconstruct"
    /\ locals' = [locals EXCEPT !.reconstructed_storage = reconstruct_storage(locals.storage)]
    /\ main_pc' = "new"
    /\ UNCHANGED <<file, embeddings, out, matches, app, lineno, fs, status>>
    /\ UNCHANGED eval_vars

\* ReconstructApp::run: Embeddings::new(metadata, vocab, reconstructed_storage,
\* norms.unwrap()).  The unwrap of None panics.
ReconstructNew ==
    /\ matches.subcommand = "reconstruct"
    /\ main_pc = "new"
    /\ IF locals.norms = None
       THEN /\ out' = Append(out, [stream |-> "stderr", kind |-> "panic",
                                   context |-> "called Option::unwrap() on a None value"])
            /\ status' = "panic"
            /\ main_pc' = "exit"
       ELSE /\ main_pc' = "write"
            /\ UNCHANGED <<out, status>>
    /\ UNCHANGED <<file, embeddings, matches, app, lineno, fs, locals>>
    /\ UNCHANGED eval_vars

\* ReconstructApp::run: write_embeddings(&reconstructed_embeddings, ...)
ReconstructWrite ==
    /\ matches.subcommand = "reconstruct"
    /\ main_pc = "write"
    /\ IF fs.writable
       THEN /\ fs' = [fs EXCEPT !.output = [storage |-> locals.reconstructed_storage,
                                            norms |-> locals.norms]]
            /\ status' = "ok"
            /\ main_pc' = "exit"
            /\ UNCHANGED out
       ELSE /\ Exit("Cannot create embeddings file")
            /\ UNCHANGED fs
    /\ UNCHANGED <<file, embeddings, matches, app, lineno, locals>>
    /\ UNCHANGED eval_vars

---------------------------------------------------------------------------
(* select (select.rs): the embeddings of the words of a selection file.   *)

MaxSelect == 3

\* The embeddings select reads: unit vectors and their norms.
SelectEmbeddings == [w \in {Word("a"), Word("b"), Word("c")} |-> IF w = Word("b") THEN -1 ELSE 1]

SelectNorms == [w \in {Word("a"), Word("b"), Word("c")} |->
                   IF w = Word("a") THEN 2 ELSE IF w = Word("b") THEN 3 ELSE 4]

\* Selection files: one word per line, with repeated words and a word that
\* has no embedding.
SelectWordPool == {Word("a"), Word("b"), Word("e")}

SelectFiles == UNION {[1..n -> SelectWordPool] : n \in 0..MaxSelect}

\* embeddings.vocab().idx(&word): Some index or None.
vocab_idx(emb, word) == IF word \in DOMAIN emb THEN <<word>> ELSE None

\* Embeddings::embedding_with_norm(word): the stored unit vector of the word
\* and its norm, None for a word without index.
embedding_with_norm(emb, norms, word) ==
    IF word \in DOMAIN emb
    THEN <<[embedding |-> emb[word], norm |-> norms[word]]>>
    ELSE None

\* The orders in which a HashSet may hand out its elements.
IterationOrders(set) ==
    {order \in [1..Cardinality(set) -> set] :
        \A i, j \in 1..Cardinality(set) : order[i] = order[j] => i = j}

\* copy_select_embeddings for one iteration order of `select`.
copy_select_embeddings(emb, norms, order) ==
    IF \E i \in DOMAIN order : embedding_with_norm(emb, norms, order[i]) = None
    THEN [ok |-> FALSE,
          word |-> order[CHOOSE i \in DOMAIN order :
                            /\ embedding_with_norm(emb, norms, order[i]) = None
                            /\ \A j \in 1..(i - 1) :
                                  embedding_with_norm(emb, norms, order[j]) # None]]
    ELSE [ok |-> TRUE,
          vocab |-> order,
          storage |-> [i \in DOMAIN order |->
                          embedding_with_norm(emb, norms, order[i])[1].embedding],
          norms |-> [i \in DOMAIN order |->
                          embedding_with_norm(emb, norms, order[i])[1].norm]]

\* bail!("Cannot get embedding for: {}", word): run returns the error.
Bail(word) ==
    /\ out' = Append(out, [stream |-> "stderr", kind |-> "error",
                           context |-> "Cannot get embedding for", word |-> word])
    /\ status' = "error"
    /\ main_pc' = "exit"

\* SelectApp::parse
SelectParse ==
    /\ matches.subcommand = "select"
    /\ main_pc = "parse"
    /\ app' = [ignore_unknown |-> matches.ignore_unknown]
    /\ main_pc' = "run"
    /\ UNCHANGED <<file, embeddings, out, matches, lineno, fs, locals, status>>
    /\ UNCHANGED eval_vars

\* SelectApp::run: read_embeddings(...).context("Cannot read embeddings")?, and
\* read_words opens the selection file.
SelectRead ==
    /\ matches.subcommand = "select"
    /\ main_pc = "run"
    /\ IF fs.readable
       THEN /\ locals' = [words |-> {}]
            /\ main_pc' = "words"
            /\ UNCHANGED <<out, status>>
       ELSE /\ Fail("Cannot read embeddings")
            /\ UNCHANGED locals
    /\ UNCHANGED <<file, embeddings, matches, app, lineno, fs>>
    /\ UNCHANGED eval_vars

\* read_words with every word without index skipped, whatever the option.
SelectWordAlwaysIgnored ==
    /\ matches.subcommand = "select"
    /\ main_pc = "words"
    /\ lineno < Len(file)
    /\ lineno' = lineno + 1
    /\ LET word == file[lineno + 1] IN
       IF vocab_idx(embeddings, word) # None
       THEN locals' = [locals EXCEPT !.words = @ \cup {word}]
       ELSE UNCHANGED locals
    /\ UNCHANGED <<out, status, main_pc>>
    /\ UNCHANGED <<file, embeddings, matches, app, fs>>
    /\ UNCHANGED eval_vars

\* read_words: one turn of the loop over the lines of the selection file.
SelectWord ==
    /\ matches.subcommand = "select"
    /\ main_pc = "words"
    /\ lineno < Len(file)
    /\ lineno' = lineno + 1
    /\ LET word == file[lineno + 1] IN
       IF vocab_idx(embeddings, word) # None
       THEN /\ locals' = [locals EXCEPT !.words = @ \cup {word}]
            /\ UNCHANGED <<out, status, main_pc>>
       ELSE IF ~app.ignore_unknown
       THEN /\ Bail(word)
            /\ UNCHANGED locals
       ELSE UNCHANGED <<out, status, main_pc, locals>>
    /\ UNCHANGED <<file, embeddings, matches, app, fs>>
    /\ UNCHANGED eval_vars

\* SelectApp::run: read_words returns Ok(words), then
\* copy_select_embeddings(&embeddings, select)?
SelectCopy ==
    /\ matches.subcommand = "select"
    /\ main_pc = "words"
    /\ lineno = Len(file)
    /\ \E order \in IterationOrders(locals.words) :
          LET r == copy_select_embeddings(embeddings, fs.input_norms, order) IN
          IF r.ok
          THEN /\ locals' = [words |-> locals.words,
                             output_embeddings |-> [vocab |-> r.vocab,
                                                    storage |-> r.storage,
                                                    norms |-> r.norms]]
               /\ main_pc' = "write"
               /\ UNCHANGED <<out, status>>
          ELSE /\ Bail(r.word)
               /\ UNCHANGED locals
    /\ UNCHANGED <<file, embeddings, matches, app, lineno, fs>>
    /\ UNCHANGED eval_vars

\* SelectApp::run: write_embeddings(&output_embeddings, ...)
SelectWrite ==
    /\ matches.subcommand = "select"
    /\ main_pc = "write"
    /\ IF fs.writable
       THEN /\ fs' = [fs EXCEPT !.output = locals.output_embeddings]
            /\ status' = "ok"
            /\ main_pc' = "exit"
            /\ UNCHANGED out
       ELSE /\ Fail("Cannot create embeddings file")
            /\ UNCHANGED fs
    /\ UNCHANGED <<file, embeddings, matches, app, lineno, locals>>
    /\ UNCHANGED eval_vars

\* The command lines of select.
SelectMatches == [subcommand : {"select"}, ignore_unknown : BOOLEAN]

\* The command lines of quantize and reconstruct.
QuantizeMatches ==
    [subcommand : {"quantize"}, quantizer : QuantizerArgs,
     quantizer_bits : BitsArgs, n_subquantizers : SubquantizersArgs]

ReconstructMatches ==
    [subcommand : {"reconstruct"}, input_format : {"finalfusion", "finalfusion_mmap"}]

StorageInit ==
    /\ \/ /\ matches \in QuantizeMatches
          /\ embeddings \in Matrices
          /\ fs \in [feature_opq : BOOLEAN, dims : {2, 3}, readable : BOOLEAN,
                     read : {FALSE}, writable : BOOLEAN, output : {None}]
          /\ file = <<>>
          /\ main_pc = "args"
       \/ /\ matches \in ReconstructMatches
          /\ embeddings = EmptyMap
          /\ fs \in [readable : BOOLEAN, input : QuantizedFiles,
                     writable : BOOLEAN, output : {None}]
          /\ file = <<>>
          /\ main_pc = "parse"
       \/ /\ matches \in SelectMatches
          /\ embeddings = SelectEmbeddings
          /\ fs \in [readable : BOOLEAN, input_norms : {SelectNorms},
                     writable : BOOLEAN, output : {None}]
          /\ file \in SelectFiles
          /\ main_pc = "parse"
    /\ app = None
    /\ lineno = 0
    /\ locals = None
    /\ out = <<>>
    /\ status = "running"
    /\ EvalIdle

StorageNext ==
    \/ QuantizeGetMatches
    \/ QuantizeParse
    \/ QuantizeRead
    \/ QuantizeTrain
    \/ QuantizeWrite
    \/ QuantizePrintLoss
    \/ ReconstructParse
    \/ ReconstructRead
    \/ ReconstructStorage
    \/ ReconstructNew
    \/ ReconstructWrite
    \/ SelectParse
    \/ SelectRead
    \/ SelectWord
    \/ SelectCopy
    \/ SelectWrite

SpecStorage == StorageInit /\ [][StorageNext]_vars


---------------------------------------------------------------------------
(* Vocabulary of the properties of quantize and reconstruct. *)

IsQuantize == matches.subcommand = "quantize"

IsReconstruct == matches.subcommand = "reconstruct"

\* -b is a number outside [1, 8].
BitsOutOfRange ==
    /\ parse_usize(matches.quantizer_bits).ok
    /\ parse_usize(matches.quantizer_bits).value \notin 1..8

\* Nothing has been processed: no embeddings read, nothing trained, nothing
\* written, no loss printed.
NoProcessing ==
    /\ ~fs.read
    /\ locals = None
    /\ fs.output = None
    /\ \A i \in DOMAIN out : out[i].kind = "error"

ErrorLines == SelectSeq(out, LAMBDA e : e.kind = "error")

LossLines == SelectSeq(out, LAMBDA e : e.kind = "loss")

---------------------------------------------------------------------------
\* C16: a bits count outside [1, 8] makes QuantizeApp::parse return an error
\* before anything is processed: no QuantizeApp exists, no embeddings are
\* read, nothing is trained or written, and the error is reported once; every
\* QuantizeApp that parse returns has 1 <= quantizer_bits <= 8.
C16_BitsCheckedBeforeProcessing ==
    IsQuantize =>
        /\ app # None => app.quantizer_bits >= 1 /\ app.quantizer_bits <= 8
        /\ BitsOutOfRange =>
               /\ app = None
               /\ NoProcessing
               /\ main_pc = "exit" => status \in {"error", "exit"} /\ Len(ErrorLines) = 1

\* parse has refused -b 9 (the quantizer and the subquantizers were fine).
C16_Witness ==
    /\ IsQuantize
    /\ matches.quantizer_bits = <<"9">>
    /\ main_pc = "exit"
    /\ status = "error"
    /\ ErrorLines[1].context = "The number of quantizer bits should be in [1, 8]"

---------------------------------------------------------------------------
\* C17: a quantizer the build does not support is reported before anything is
\* processed: the input embeddings are not read, nothing is trained and
\* nothing is written.
C17_UnknownQuantizerBeforeProcessing ==
    (IsQuantize /\ matches.quantizer \notin SupportedQuantizers(fs.feature_opq))
        => NoProcessing

---------------------------------------------------------------------------
\* C18: the loss never gates the quantize run: when the loss is computed the
\* quantized embeddings are already written, and once they are written the
\* run ends with Ok and both metrics printed, whatever their values.
C18_LossNeverGatesQuantize ==
    IsQuantize =>
        /\ (main_pc = "loss" \/ LossLines # <<>>) =>
               /\ fs.output # None
               /\ fs.output = locals.quantized_embeddings
        /\ (main_pc = "exit" /\ fs.output # None) =>
               /\ status = "ok"
               /\ Len(LossLines) = 2

\* A run that wrote its output, printed NaN as the average cosine similarity
\* and returned Ok.
C18_Witness ==
    /\ IsQuantize
    /\ main_pc = "exit"
    /\ status = "ok"
    /\ fs.output # None
    /\ Len(LossLines) = 2
    /\ LossLines[1].value.class = "NaN"

---------------------------------------------------------------------------
\* C19: reconstructing a readable quantized file that has no norms succeeds:
\* the output holds the reconstructed rows of the vocabulary L2-normalised
\* and, as norms, their norms before the normalisation.
C19_ReconstructsWithoutNorms ==
    (/\ IsReconstruct
     /\ main_pc = "exit"
     /\ fs.readable
     /\ fs.writable
     /\ fs.input.norms = None)
        => /\ status = "ok"
           /\ fs.output # None
           /\ \A i \in 1..fs.input.vocab_len :
                 /\ fs.output.norms[i] = l2_normalize(embedding(fs.input.storage, i)).norm
                 /\ fs.output.storage[i] = l2_normalize(embedding(fs.input.storage, i)).v

---------------------------------------------------------------------------
\* The rows of a matrix at or beyond the number of vocabulary words are the
\* decompressed rows of the input, and the matrix has the input's shape.
BucketRowsAsDecompressed(rows) ==
    /\ <<Len(rows), 1>> = shape(fs.input.storage)
    /\ \A idx \in (fs.input.vocab_len + 1)..Len(rows) :
          rows[idx] = fs.input.storage.codebook[fs.input.storage.codes[idx]]

\* C20: reconstruction leaves the bucket rows as decompressed and keeps the
\* shape of the quantized storage, in the matrix it builds and in the file it
\* writes.
C20_BucketRowsUntouched ==
    IsReconstruct =>
        /\ (locals # None /\ locals.reconstructed_storage # None)
               => BucketRowsAsDecompressed(locals.reconstructed_storage)
        /\ fs.output # None => BucketRowsAsDecompressed(fs.output.storage)

\* A file was written whose bucket row has norm 2.
C20_Witness ==
    /\ IsReconstruct
    /\ fs.output # None
    /\ \E idx \in (fs.input.vocab_len + 1)..Len(fs.output.storage) :
          Abs(fs.output.storage[idx]) = 2

---------------------------------------------------------------------------
(* The evaluator under fair scheduling.  Every rayon worker that can take  *)
(* a step eventually takes one, and so does the thread that called         *)
(* process_analogies; nothing more is assumed of the scheduler, and the    *)
(* Mutex is not assumed to be fair.                                        *)

MainStep ==
    \/ ReadAnalogies
    \/ EvalNew
    \/ Join
    \/ DropLock
    \/ PrintSection
    \/ PrintTotal
    \/ PrintSkipped

WorkerStep(w) == Start(w) \/ eval_analogy(w)

SpecFair ==
    /\ Init
    /\ [][Next]_vars
    /\ WF_vars(MainStep)
    /\ \A w \in Workers : WF_vars(WorkerStep(w))

\* Every instance has left Pending for Skipped or Scored, no worker holds or
\* waits for the lock, and the report is printed.
Completed ==
    /\ main_pc = "done"
    /\ \A i \in DOMAIN item : item[i] \in {"skipped", "scored"}
    /\ \A w \in Workers : pc[w] = "idle"
    /\ MutexFree
    /\ Len(out) >= 2

(* C21.  Under fair scheduling of the workers an evaluation that has read  *)
(* its instances runs to completion: every instance eventually leaves      *)
(* Pending for Skipped or Scored, no worker is left waiting for the        *)
(* section-counts lock, and the report is eventually produced.             *)
C21_EvaluationCompletes == (main_pc = "new") ~> Completed

---------------------------------------------------------------------------
(* The section-counts lock. *)

\* Worker w is at a step of eval_analogy that reads or writes the map:
\* entry(..).or_default() and the updates through `counts`.
AccessesCounts(w) ==
    pc[w] \in {"entry_skip", "entry", "inc_skipped", "inc_instances", "inc_correct"}

\* The calling thread is at a step of Drop that reads the map.
ReportReadsCounts == main_pc \in {"sections", "skipped"}

(* C22.  Mutual exclusion on the section counts: in every reachable state  *)
(* at most one thread holds the lock; a worker that is creating a section  *)
(* entry or updating a counter, and the calling thread while it reads the  *)
(* counters for the report, is the holder; a step that changes the map is  *)
(* a step of the holder; and no step changes the embeddings.               *)
C22_MutualExclusion ==
    /\ [](/\ Cardinality(mutex) <= 1
          /\ \A w \in Workers : AccessesCounts(w) => mutex = {w}
          /\ ReportReadsCounts => mutex = {MainThread})
    /\ [][/\ embeddings' = embeddings
          /\ section_counts' # section_counts =>
                \E w \in Workers : mutex = {w} /\ pc'[w] # pc[w]
          /\ (out' # out \/ iter' # iter) => mutex' \cup mutex = {MainThread}]_vars

\* A worker is inside its update, holding the lock with an entry created,
\* while the other worker waits for the lock.
C22_Witness ==
    \E w1, w2 \in Workers :
        /\ mutex = {w1}
        /\ pc[w1] \in {"inc_skipped", "inc_instances", "inc_correct"}
        /\ pc[w2] \in {"lock_skip", "lock"}
        /\ section_counts # EmptyMap
        /\ DOMAIN embeddings # {}

\* Worker w takes the lock in this step, releases it in this step, and its
\* eval_analogy call ends in this step (by return or by unwinding).
Acquires(w) == w \notin mutex /\ w \in mutex'

Releases(w) == w \in mutex /\ w \notin mutex'

CallEnds(w) == pc[w] # "idle" /\ pc'[w] = "idle"

\* The lock is taken after the vocabulary lookup and the analogy query, and
\* neither is done by the holder.
LockAfterLookups ==
    /\ [](\A w \in Workers : w \in mutex => AccessesCounts(w))
    /\ [][\A w \in Workers :
            /\ Acquires(w) =>
                  /\ pc[w] \in {"lock_skip", "lock"}
                  /\ is_correct'[w] = is_correct[w] /\ cos'[w] = cos[w]
            /\ (w \in mutex /\ ~CallEnds(w)) =>
                  /\ is_correct'[w] = is_correct[w] /\ cos'[w] = cos[w]
                  /\ cur'[w] = cur[w]
            /\ Releases(w) => CallEnds(w)]_vars

(* C23.  The critical section is minimal: a worker takes the lock only     *)
(* after the vocabulary lookup of the gold answer and, for a scored        *)
(* instance, after the analogy query, with is_correct and cos fixed; the   *)
(* holder does no lookup and no query; and each eval_analogy call takes    *)
(* the lock exactly once: a call takes it only from the waiting position,  *)
(* releases it only by ending, and every call that ends holds it.          *)
C23_MinimalCriticalSection ==
    /\ LockAfterLookups
    /\ [][\A w \in Workers : CallEnds(w) => Releases(w)]_vars

---------------------------------------------------------------------------
(* The analogy tool's input loop, as subcommand and as standalone binary. *)

IsFfAnalogy == matches.subcommand = "ff-analogy"

AnalogyTool == IsAnalogy \/ IsFfAnalogy

\* Input line n is neither blank nor a query of three tokens.
Malformed(n) == Len(QueryOf(n)) \notin {0, 3}

\* s is an initial part of t.
IsPrefix(s, t) == Len(s) <= Len(t) /\ SubSeq(t, 1, Len(s)) = s

(* C24.  In the analogy subcommand and in ff-analogy alike, a non-blank    *)
(* input line that is not three tokens ends the run with an error at that  *)
(* line: the run has ended with a failure status and an error on stderr as *)
(* its last output, nothing is printed for the line, no line after it is   *)
(* read, and whatever was printed before stays printed.                    *)
C24_MalformedQueryIsFatal ==
    /\ [](AnalogyTool =>
            /\ \A n \in 1..lineno : Malformed(n) =>
                  /\ n = lineno
                  /\ main_pc = "exit"
                  /\ status = (IF IsAnalogy THEN "error" ELSE "exit")
                  /\ out # <<>>
                  /\ out[Len(out)].stream = "stderr" /\ out[Len(out)].kind = "error"
                  /\ ResultLines(n) = <<>> /\ MissingLines(n) = <<>>
            /\ \A j \in DOMAIN out :
                  out[j].kind \in {"result", "missing"} => out[j].line <= lineno)
    /\ [][AnalogyTool => IsPrefix(out, out')]_vars

\* ff-analogy has stopped at a malformed first line with a line still unread.
C24_Witness ==
    /\ IsFfAnalogy
    /\ lineno = 1 /\ Malformed(1)
    /\ Len(file) = 2 /\ ~Malformed(2) /\ QueryOf(2) # <<>>
    /\ main_pc = "exit"

\* A line that is empty or holds nothing but blanks.
IsBlank(line) == \A i \in DOMAIN line : line[i] = " "

\* The entries of the output that belong to an input line.
LineEntries == {j \in DOMAIN out : out[j].kind \in {"result", "missing"}}

(* C25.  The analogy and similar tools take one query per input line, in   *)
(* input order: everything printed for a line comes before everything      *)
(* printed for a later line, no line has more than k result lines, and     *)
(* reading a line that is empty or only blanks prints nothing, neither a   *)
(* result nor a diagnostic, and leaves the run going.                      *)
C25_OneQueryPerLineInOrder ==
    /\ [](/\ \A i, j \in LineEntries : i < j => out[i].line <= out[j].line
          /\ \A n \in 1..lineno :
                /\ Len(ResultLines(n)) <= app.k
                /\ IsBlank(file[n]) => ResultLines(n) = <<>> /\ MissingLines(n) = <<>>)
    /\ [][(lineno' = lineno + 1 /\ IsBlank(file[lineno'])) =>
              out' = out /\ main_pc' = main_pc /\ status' = status]_vars

\* The similar tool has answered two queries, the second with k results.
C25_Witness ==
    /\ IsSimilar
    /\ lineno = 2
    /\ ResultLines(1) # <<>>
    /\ app.k = MaxK
    /\ Len(ResultLines(2)) = app.k

---------------------------------------------------------------------------
(* Lazy creation of the section entries. *)

\* The labels of the header lines of the test file.
HeaderLabels == {skip(file[i], 2) : i \in {j \in DOMAIN file : ~IsTestLine(file[j])}}

\* Workers that hold the lock, have created or found the entry of section s
\* and have not yet applied their first increment to it.
BeforeUpdate(s) ==
    {w \in Workers : pc[w] \in {"inc_skipped", "inc_instances"} /\ Instance(w).section = s}

(* C26.  Section entries are created lazily.  Whenever no worker is inside *)
(* its update, a section has an entry iff an instance carrying its label   *)
(* has completed its update (skipped or scored); inside an update the only *)
(* other entry is the one of the updating worker's section, and if no      *)
(* instance of that section has completed it is still all zeros before the *)
(* first increment.  An entry is created with all counters 0 and is never  *)
(* removed, and the report has a line only for sections in which an        *)
(* instance completed, so none for a header followed by no instance.       *)
C26_SectionEntriesLazy ==
    /\ [](/\ \A s \in SectionsOf(instances) \cup HeaderLabels \cup DOMAIN section_counts :
                s \in DOMAIN section_counts <=>
                    \/ Finished(s) # {}
                    \/ BeforeUpdate(s) # {}
                    \/ MidUpdate(s) # {}
          /\ \A s \in DOMAIN section_counts :
                (Finished(s) = {} /\ BeforeUpdate(s) # {}) =>
                    section_counts[s] = CountsDefault
          /\ \A k \in SectionLines : Finished(out[k].section) # {})
    /\ [][/\ DOMAIN section_counts \subseteq DOMAIN section_counts'
          /\ \A s \in DOMAIN section_counts' :
                s \notin DOMAIN section_counts =>
                    /\ section_counts'[s].n_correct = 0
                    /\ section_counts'[s].n_instances = 0
                    /\ section_counts'[s].n_skipped = 0]_vars

\* The finished report of a file with a header that no instance follows and
\* a section with an instance: the report has a line, none for that header.
C26_Witness ==
    /\ main_pc = "done"
    /\ HeaderLabels \ SectionsOf(instances) # {}
    /\ SectionLines # {}
    /\ \A k \in SectionLines : out[k].section \notin HeaderLabels \ SectionsOf(instances)

---------------------------------------------------------------------------
(* select. *)

IsSelect == matches.subcommand = "select"

\* Line n of the selection file is a word without vocabulary index.
Unknown(n) == file[n] \notin DOMAIN embeddings

\* The distinct selection words that have a vocabulary index.
KnownSelection == {file[n] : n \in {j \in DOMAIN file : ~Unknown(j)}}

\* The entries of the output that name a word without embedding.
UnknownWordLines == SelectSeq(out, LAMBDA e : e.kind = "error" /\ "word" \in DOMAIN e)

(* C27.  select with ignore-unknown disabled: the first selection word     *)
(* without vocabulary index ends the run with an error naming it, no later *)
(* word is read, and no output file is ever written when the selection     *)
(* has such a word.  With ignore-unknown enabled such words are dropped    *)
(* with no diagnostic, and the written embeddings hold exactly the         *)
(* distinct selection words that have an index, each once, each with its   *)
(* own row and its own norm.                                               *)
C27_SelectUnknownWords ==
    IsSelect =>
       /\ ~matches.ignore_unknown =>
             /\ \A n \in 1..lineno : Unknown(n) =>
                   /\ n = lineno
                   /\ status = "error" /\ main_pc = "exit"
                   /\ out = <<[stream |-> "stderr", kind |-> "error",
                               context |-> "Cannot get embedding for", word |-> file[n]]>>
             /\ (\E n \in DOMAIN file : Unknown(n)) => fs.output = None
       /\ matches.ignore_unknown => UnknownWordLines = <<>>
       /\ fs.output # None =>
             /\ {fs.output.vocab[i] : i \in DOMAIN fs.output.vocab} = KnownSelection
             /\ Len(fs.output.vocab) = Cardinality(KnownSelection)
             /\ DOMAIN fs.output.storage = DOMAIN fs.output.vocab
             /\ DOMAIN fs.output.norms = DOMAIN fs.output.vocab
             /\ \A i \in DOMAIN fs.output.vocab :
                   /\ fs.output.storage[i] = embeddings[fs.output.vocab[i]]
                   /\ fs.output.norms[i] = fs.input_norms[fs.output.vocab[i]]

\* With ignore-unknown, a selection that repeats a word and names a word
\* without index has been written: fewer rows than selection lines.
C27_Witness ==
    /\ IsSelect
    /\ matches.ignore_unknown
    /\ fs.output # None
    /\ \E n \in DOMAIN file : Unknown(n)
    /\ \E n, k \in DOMAIN file : n < k /\ file[n] = file[k] /\ ~Unknown(n)
    /\ Len(fs.output.vocab) = 1

---------------------------------------------------------------------------
(* read_analogies on its own, over test files with longer lines, labels    *)
(* with blanks, an empty label and a line that starts with a colon alone.  *)

MaxReadLines == 3

ReadLinePool ==
    { HeaderLine(<<"b">>),
      HeaderLine(<<"a", " ", "b">>),
      HeaderLine(<<>>),
      QueryLine("a", "b", "c", "d"),
      <<" ">> \o QueryLine("b", "a", "d", "c") \o <<" ", "e">>,
      <<":">> \o QueryLine("a", "b", "c", "d"),
      <<"a", " ", "b", " ", "c">> }

ReadFiles == UNION {[1..n -> ReadLinePool] : n \in 0..MaxReadLines}

ReadInit ==
    /\ file \in ReadFiles
    /\ embeddings = EmbFull
    /\ main_pc = "read"
    /\ instances = <<>>
    /\ item = <<>>
    /\ pc = [w \in Workers |-> "idle"]
    /\ cur = [w \in Workers |-> 0]
    /\ is_correct = [w \in Workers |-> FALSE]
    /\ cos = [w \in Workers |-> 0]
    /\ counts = [w \in Workers |-> CountsDefault]
    /\ mutex = {}
    /\ section_counts = EmptyMap
    /\ panicked = FALSE
    /\ iter = <<>>
    /\ out = <<>>
    /\ matches = <<>>
    /\ app = <<>>
    /\ lineno = 0
    /\ fs = <<>>
    /\ locals = <<>>
    /\ status = "running"

ReadNext == ReadAnalogies

SpecRead == ReadInit /\ [][ReadNext]_vars

\* The header lines and the other lines of the file, by line number.
HeaderIdx == {i \in DOMAIN file : Len(file[i]) >= 2 /\ file[i][1] = ":" /\ file[i][2] = " "}

TestIdx == DOMAIN file \ HeaderIdx

\* Every line that is no header has at least four tokens.
FourTokens == \A i \in TestIdx : Len(split_whitespace(file[i])) >= 4

\* The label in force at line i: the text after ": " on the last header
\* before it, the empty string without one.
LabelAt(i) ==
    LET before == {h \in HeaderIdx : h < i} IN
    IF before = {} THEN <<>>
    ELSE LET h == CHOOSE x \in before : \A y \in before : y <= x
         IN SubSeq(file[h], 3, Len(file[h]))

(* C28.  For a file in which every non-header line has at least four       *)
(* tokens, read_analogies returns one instance per non-header line, in     *)
(* file order, whose query is the line's first three tokens, whose answer  *)
(* is the fourth, and whose section is the text after ": " on the last     *)
(* header line before it (the empty string if there is none); header       *)
(* lines give no instance.                                                 *)
C28_ReadAnalogiesInstances ==
    (main_pc # "read" /\ FourTokens) =>
        /\ main_pc = "new"
        /\ Len(instances) = Cardinality(TestIdx)
        /\ \A k \in DOMAIN instances :
              LET i == NthSmallest(TestIdx, k)
                  tokens == split_whitespace(file[i])
              IN /\ instances[k].query = <<tokens[1], tokens[2], tokens[3]>>
                 /\ instances[k].answer = tokens[4]
                 /\ instances[k].section = LabelAt(i)

\* A file read with an instance before any header, a header whose label has
\* a blank, and after it a line of five tokens.
C28_Witness ==
    /\ main_pc = "new"
    /\ Len(instances) = 2
    /\ instances[1].section = <<>>
    /\ instances[2].section = <<"a", " ", "b">>
    /\ \E i \in TestIdx : Len(split_whitespace(file[i])) = 5

---------------------------------------------------------------------------
(* C29.  eval_analogy never fails: no call panics, and a call on an        *)
(* instance whose gold answer is a vocabulary word ends as scored, having  *)
(* incremented n_instances of the instance's section by exactly one; this  *)
(* includes a resolved query for which the analogy primitive returns no    *)
(* candidate.                                                              *)
C29_EvalAnalogyNeverFails ==
    /\ [](~panicked)
    /\ [][\A w \in Workers :
            (CallEnds(w) /\ VocabHasWord(embeddings, Instance(w).answer)) =>
                /\ item'[cur[w]] = "scored"
                /\ CounterOf(section_counts', Instance(w).section, "n_instances")
                     = CounterOf(section_counts, Instance(w).section, "n_instances")
                /\ section_counts[Instance(w).section].n_instances
                     = counts[w].n_instances + 1]_vars

---------------------------------------------------------------------------
(* The similarity measure. *)

Measures == {"angular", "cosine"}

\* The words of a sequence of printed results, in their order.
WordsOf(lines) == [i \in DOMAIN lines |-> lines[i].word]

\* The answers the library returned for input line n of a query tool.
AnswersFor(n) ==
    IF IsAnalogy
    THEN solve(embeddings, QueryOf(n), app.excludes, app.k).results
    ELSE word_similarity(embeddings, trim(file[n]), app.k).results

\* Input line n is a query that was answered.
Answered(n) ==
    \/ IsAnalogy /\ Solvable(n)
    \/ IsSimilar /\ Resolvable(trim(file[n]))

(* C30.  The similarity measure changes only the printed score.  For every *)
(* answered query of the analogy and the similar tool, what the run        *)
(* printed is the printing under its own measure, and under either measure *)
(* the same embeddings, line, mask and k give the same words in the same   *)
(* order, with scores that do not increase down the list.                  *)
C30_MeasureOnlyChangesScore ==
    (IsAnalogy \/ IsSimilar) =>
        \A n \in 1..lineno : Answered(n) =>
            /\ ResultLines(n) = print_results(AnswersFor(n), app.similarity, n)
            /\ \A m \in Measures :
                  LET printed == print_results(AnswersFor(n), m, n) IN
                  /\ WordsOf(printed) = WordsOf(ResultLines(n))
                  /\ \A i, j \in DOMAIN printed :
                        i < j => printed[i].score >= printed[j].score

\* The analogy tool under the angular measure has printed two answers with
\* different scores.
C30_Witness ==
    /\ IsAnalogy
    /\ app # None
    /\ app.similarity = "angular"
    /\ \E n \in 1..lineno :
          /\ Len(ResultLines(n)) = 2
          /\ ResultLines(n)[1].score > ResultLines(n)[2].score

=============================================================================
